---- MODULE Spec2Model ----
(***************************************************************************)
(* Verification model of the siscom agent system:                          *)
(*   - the Kafka consumer worker (backend/workers/agent_consumer.py):      *)
(*     consume loop, semaphore-guarded handlers, shutdown;                 *)
(*   - the room-suggestion batch handler and its webhook deliveries;       *)
(*   - the retry loop of PersonalizeNode / GenerateMessageSuggestionsNode; *)
(*   - the workflows built by MultiAgents, run in supersteps;              *)
(*   - the API process (backend/main.py, backend/controllers/agent.py):    *)
(*     the /chat endpoint and the listener of the response topic;          *)
(*   - the downstream effects (table rows, webhook POSTs) of messages that *)
(*     are delivered more than once or belong to different batches;        *)
(*   - offsets, auto-commit and restart of the worker's Kafka consumer;    *)
(*   - the chat handler process_chat_message: re-invocation of the chat    *)
(*     workflow on a failure phrase and delivery of its messages;          *)
(*   - several chat handlers in flight on the worker's event loop;         *)
(*   - the cache of rails apps of GuardrailsManager;                       *)
(*   - the attempts of OrchestrationNode.execute;                          *)
(*   - the Kafka producer of the /chat and /generate-room-suggestion       *)
(*     endpoints.                                                          *)
(* Each part has its own specification over its own variables; the        *)
(* variables of the other parts stay at their initial values.              *)
(***************************************************************************)
EXTENDS Integers, Sequences, FiniteSets, TLC

(***************************************************************************)
(* Program constants and model bounds                                      *)
(***************************************************************************)
SEMAPHORE_LIMIT == 10

\* agent_consumer.py: attempts of the chat workflow per message, and the pause
\* between two attempts (seconds)
MAX_WORKFLOW_RETRIES == 3
RETRY_DELAY_SECONDS == 2

\* number of messages the consumer receives in one run of the model
MaxMsgs == 12

\* number of messages (one per room) of the room-suggestion batch
BatchSize == 2

\* PersonalizeNode / GenerateMessageSuggestionsNode class attributes
MAX_ATTEMPTS == 4
MIN_ACCEPTED_LEN == 12
\* INITIAL_BACKOFF_SEC = 0.6, in tenths of a second
INITIAL_BACKOFF_TENTHS == 6

\* OrchestrationNode.execute: max_retries
max_retries == 6

\* "recursion_limit": 200 of the invocations' config
RECURSION_LIMIT == 200
\* limit of an invocation without a recursion_limit in its config
DEFAULT_RECURSION_LIMIT == 25

\* number of calls of the /chat endpoint in one run of the model
MaxCalls == 2
\* number of messages the listener takes from the response topic
MaxResponses == 2

\* number of room-suggestion batches (uuids) and of handled deliveries
NumBatches == 2
MaxDeliveries == 3
\* most messages of one chat response that pass the filters and are posted
MaxChatMessages == 2

\* number of messages produced to the worker's topic partition
MaxLog == 3

\* chat handlers that are inside the semaphore section at the same time
InFlight == 3

\* number of requests to the /chat and /generate-room-suggestion endpoints
MaxRequests == 2

\* number of distinct rules of the rooms, and of calls of
\* GuardrailsManager._get_or_create_rails_app
MaxRules == 2
MaxRailsCalls == 3

VARIABLES
    \* ---- consumer worker (consume / process_message) ----
    cpc,          \* position of consume(): consuming, stop_consumer, stop_producer, gather, exited
    received,     \* number of messages taken from the consumer so far
    tasks,        \* the set `tasks`: handler tasks created and not yet done
    inside,       \* handler tasks inside the `async with semaphore` section
    semaphore,    \* value of asyncio.Semaphore(SEMAPHORE_LIMIT)
    consumerUp,   \* the AIOKafkaConsumer is started and not stopped
    producerUp,   \* the AIOKafkaProducer is started and not stopped
    lastExit,     \* how the most recently finished handler body ended
    waited,       \* handler tasks that have waited at the semaphore with no permit free
    \* ---- room-suggestion batch (process_room_suggestion_message) ----
    bReceived,    \* number of messages of the batch taken from the consumer
    bpc,          \* position of each message's handler
    posts,        \* per message: number of webhook POSTs issued by its handler
    lastPayload,  \* per message: kind of the payload of its latest POST
    db,           \* table rooms_management: ids of the rooms with a stored suggestion
    finalRead,    \* per message: whether its final analysis ran, and the rows it read
    webhookLog,   \* per message: what send_webhook logged for each answered POST
    singleResult, \* per message: what generate_room_suggestion returned, stored and logged
    \* ---- retry loop of PersonalizeNode / GenerateMessageSuggestionsNode ----
    rNode,        \* the node whose execute runs
    rpc,          \* position in execute: begin, tool, direct, backoff, returned, raised
    attempt,      \* loop variable `attempt`
    agent_executor, \* TRUE when initialize_tool_agent returned an executor, FALSE for None
    toolCalls,    \* calls of agent_executor.ainvoke made by this execution
    directCalls,  \* calls of llm_manager.ainvoke made by this execution
    backoff,      \* local `backoff`, in tenths of a second
    sleeps,       \* the durations passed to asyncio.sleep, in order
    last_error,   \* local `last_error`
    rReturn,      \* which return statement ended execute
    result,       \* the returned state update
    lastOut,      \* outcome of the latest model call: "raise" or its parsed output
    \* ---- one run of a compiled workflow (workflow.ainvoke) ----
    gWorkflow,    \* which workflow of MultiAgents runs
    gLimit,       \* recursion_limit of the invocation's config
    gStatus,      \* idle, running, done, raised
    gRaised,      \* the node an exception escaped from and its kind, when raised
    gStep,        \* number of the current superstep
    gActive,      \* nodes scheduled in the current superstep
    gStarted,     \* nodes of the current superstep that have started
    gFinished,    \* nodes of the current superstep that have returned
    gState,       \* run state the nodes of the current superstep read
    gNext,        \* run state with the updates returned so far merged in
    gExecs,       \* number of node executions started in this run
    completed,    \* nodes that have completed at least once in this run
    gOutcome,     \* node -> the outcome of its last completed execution
    gOrder,       \* the nodes of this run in the order they completed
    \* ---- API process (invoke_chat_workflow, response_listener) ----
    calls,        \* the calls of POST /chat so far, in order
    generated,    \* number of uuid.uuid4() values drawn so far
    broker,       \* correlation ids of the requests sent to the agent topic
    pending_responses, \* the shared map: correlation id -> future
    futures,      \* per future: 0 while pending, else the payload it was resolved with
    lReceived,    \* number of messages the listener took from the response topic
    lastMsg,      \* the message the listener handled last
    resolved,     \* correlation ids whose future the listener has resolved
    listenerUp,   \* the listener's loop is running
    lErrors,      \* number of messages whose processing raised and was logged
    \* ---- downstream effects of handled deliveries ----
    deliveries,       \* number of deliveries handled so far
    rooms_management, \* the table: per room id, the batch whose unit wrote the row (0: no row)
    overwritten,      \* rows <<room, batch>> that a unit of another batch has replaced
    synthesis,        \* batch and rows read by the latest final analysis
    unitHandled,      \* per batch and room: times the unit's message was handled
    unitPosts,        \* per batch and room: webhook POSTs issued by the message's handlers
    unitPostsFirst,   \* per batch and room: POSTs issued by its first handling
    chatHandled,      \* times the chat request was handled
    chatPosts,        \* webhook POSTs issued for the chat request
    chatPostsFirst,   \* POSTs issued by the first handling of the chat request
    \* ---- offsets of the worker's consumer (group "agent-group") ----
    kEnd,         \* log end offset: number of messages produced to the partition
    kPosition,    \* offset of the next message the consumer will return
    kCommitted,   \* committed offset of the group
    kRunning,     \* offsets whose handler task is running
    kDone,        \* offsets whose handler has run to completion
    kUp,          \* the worker process is running
    \* ---- one execution of process_chat_message ----
    wpc,          \* "invoke", "sleep", "deliver", "done", or "raised"
    wAttempt,     \* the loop variable attempt (0-based)
    wInvocations, \* number of calls of workflow.ainvoke so far
    wSleeps,      \* the delays of asyncio.sleep between attempts, in order
    wResponse,    \* the response of the latest workflow.ainvoke
    wExhausted,   \* the else branch of the loop ran: all attempts failed
    wIndex,       \* number of entries of list_message handled by the delivery loop
    wPosted,      \* the POSTs to the backend webhook: message and what was logged
    \* ---- chat handlers in flight on the event loop ----
    hpc,          \* per handler: "invoke", "retry_sleep", "post", "pause", "done"
    hAttempt,     \* per handler: the loop variable attempt (0-based)
    hLen,         \* per handler: number of messages of list_message to deliver
    hIndex,       \* per handler: messages delivered so far
    \* ---- GuardrailsManager (the one instance of the process) ----
    base_config,      \* self.base_config: "loaded", or "None" when the files are missing
    rails_apps_cache, \* self.rails_apps_cache: cache key -> LLMRails object
    gmCalls,          \* number of calls of _get_or_create_rails_app so far
    gmApps,           \* number of LLMRails objects constructed so far
    gmBuilds,         \* per set of rule ids: LLMRails objects constructed for it
    gmFailures,       \* per set of rule ids: constructions that raised
    gmReturned,       \* per set of rule ids: the objects returned to its callers
    gmLast,           \* the latest call: its rules, what it did and what it returned
    \* ---- one execution of OrchestrationNode.execute ----
    opc,          \* "begin", "loop", "returned", "raised"
    oSummary,     \* state["conversation_summary"]: "summary", or "" when there is none
    oRoom,        \* state["room_details"]: "room", or "None" when get_room_info got none
    oAttempt,     \* the loop variable attempt (0-based)
    oCalls,       \* calls of llm_manager.ainvoke made by this execution
    oLog,         \* how each attempt ended, in order
    oResult,      \* the returned state update
    \* ---- requests to the endpoints that publish to Kafka ----
    qEndpoint,    \* per request: "none" before it arrives, then "chat" or "room_suggestion"
    qpc,          \* per request: "new", "start", "send", "stop", "returned", "http_500"
    qProducer     \* per request: its AIOKafkaProducer: "none", "created", "started", "stopped"

consumerVars == <<cpc, received, tasks, inside, semaphore, consumerUp, producerUp, lastExit,
                  waited>>

batchVars == <<bReceived, bpc, posts, lastPayload, db, finalRead, webhookLog,
               singleResult>>

retryVars == <<rNode, rpc, attempt, agent_executor, toolCalls, directCalls, backoff, sleeps,
               last_error, rReturn, result, lastOut>>

graphVars == <<gWorkflow, gLimit, gStatus, gRaised, gStep, gActive, gStarted, gFinished,
               gState, gNext, gExecs, completed, gOutcome, gOrder>>

apiVars == <<calls, generated, broker, pending_responses, futures, lReceived, lastMsg,
             resolved, listenerUp, lErrors>>

deliverVars == <<deliveries, rooms_management, overwritten, synthesis, unitHandled, unitPosts,
                 unitPostsFirst, chatHandled, chatPosts, chatPostsFirst>>

kafkaVars == <<kEnd, kPosition, kCommitted, kRunning, kDone, kUp>>

chatVars == <<wpc, wAttempt, wInvocations, wSleeps, wResponse, wExhausted, wIndex, wPosted>>

loopVars == <<hpc, hAttempt, hLen, hIndex>>

railsVars == <<base_config, rails_apps_cache, gmCalls, gmApps, gmBuilds, gmFailures, gmReturned,
               gmLast>>

orchVars == <<opc, oSummary, oRoom, oAttempt, oCalls, oLog, oResult>>

endpointVars == <<qEndpoint, qpc, qProducer>>

vars == <<consumerVars, batchVars, retryVars, graphVars, apiVars, deliverVars, kafkaVars,
          chatVars,
          loopVars,
          railsVars,
          orchVars,
          endpointVars>>

\* the variables each part leaves alone
notConsumerVars == <<batchVars, retryVars, graphVars, apiVars, deliverVars, kafkaVars, chatVars,
          loopVars,
          railsVars,
          orchVars,
          endpointVars>>
notBatchVars == <<consumerVars, retryVars, graphVars, apiVars, deliverVars, kafkaVars, chatVars,
          loopVars,
          railsVars,
          orchVars,
          endpointVars>>
notRetryVars == <<consumerVars, batchVars, graphVars, apiVars, deliverVars, kafkaVars, chatVars,
          loopVars,
          railsVars,
          orchVars,
          endpointVars>>
notGraphVars == <<consumerVars, batchVars, retryVars, apiVars, deliverVars, kafkaVars, chatVars,
          loopVars,
          railsVars,
          orchVars,
          endpointVars>>
notApiVars == <<consumerVars, batchVars, retryVars, graphVars, deliverVars, kafkaVars, chatVars,
          loopVars,
          railsVars,
          orchVars,
          endpointVars>>
notDeliverVars == <<consumerVars, batchVars, retryVars, graphVars, apiVars, kafkaVars, chatVars,
          loopVars,
          railsVars,
          orchVars,
          endpointVars>>
notKafkaVars == <<consumerVars, batchVars, retryVars, graphVars, apiVars, deliverVars, chatVars,
          loopVars,
          railsVars,
          orchVars,
          endpointVars>>
notChatVars == <<consumerVars, batchVars, retryVars, graphVars, apiVars, deliverVars, kafkaVars,
          loopVars,
          railsVars,
          orchVars,
          endpointVars>>
notLoopVars == <<consumerVars, batchVars, retryVars, graphVars, apiVars, deliverVars,
          kafkaVars, chatVars,
          railsVars,
          orchVars,
          endpointVars>>
notRailsVars == <<consumerVars, batchVars, retryVars, graphVars, apiVars, deliverVars,
          kafkaVars, chatVars, loopVars,
          orchVars,
          endpointVars>>
notOrchVars == <<consumerVars, batchVars, retryVars, graphVars, apiVars, deliverVars,
          kafkaVars, chatVars, loopVars, railsVars,
          endpointVars>>
notEndpointVars == <<consumerVars, batchVars, retryVars, graphVars, apiVars, deliverVars,
          kafkaVars, chatVars, loopVars, railsVars, orchVars>>

(***************************************************************************)
(* Initial values of each part; a specification starts its own part and    *)
(* leaves the others at these values.                                      *)
(***************************************************************************)
Units == 1..BatchSize

\* no single-room workflow has returned for the message
NoResult == [room_suggestion |-> "unset", error |-> "unset", stored |-> FALSE, log |-> "none"]

\* the batch has not been received yet
BatchIdle ==
    /\ bReceived = 0
    /\ bpc = [m \in Units |-> "unreceived"]
    /\ posts = [m \in Units |-> 0]
    /\ lastPayload = [m \in Units |-> "none"]
    /\ db = {}
    /\ finalRead = [m \in Units |-> [ran |-> FALSE, rows |-> {}]]
    /\ webhookLog = [m \in Units |-> << >>]
    /\ singleResult = [m \in Units |-> NoResult]

\* no execution of a retrying node is in progress
RetryIdle ==
    /\ rNode = "personalize"
    /\ rpc = "begin"
    /\ attempt = 1
    /\ agent_executor = FALSE
    /\ toolCalls = 0
    /\ directCalls = 0
    /\ backoff = INITIAL_BACKOFF_TENTHS
    /\ sleeps = <<>>
    /\ last_error = "None"
    /\ rReturn = "none"
    /\ result = [answer |-> "unset", error |-> "unset"]
    /\ lastOut = "none"

\* fields of the run state that decide routing and failures
UnsetState ==
    [room_details |-> "unset", conversation_summary |-> "unset", slang_context |-> "unset",
     next_node |-> "unset", personalize_failed |-> FALSE, answer |-> "unset", error |-> "unset",
     frequent_words |-> "unset", frequent_emojis |-> "unset", frequent_hashtags |-> "unset",
     mentioned_users |-> "unset", main_topics_group |-> "unset"]

NoRaise == [node |-> "none", kind |-> "none"]

\* no workflow is running
GraphIdle ==
    /\ gWorkflow = "chat"
    /\ gLimit = RECURSION_LIMIT
    /\ gStatus = "idle"
    /\ gRaised = NoRaise
    /\ gStep = 0
    /\ gActive = {}
    /\ gStarted = {}
    /\ gFinished = {}
    /\ gState = UnsetState
    /\ gNext = UnsetState
    /\ gExecs = 0
    /\ completed = {}
    /\ gOutcome = << >>
    /\ gOrder = << >>

NoMsg == [kind |-> "none", uui_id |-> -1, payload |-> 0]

\* the API process has started: nothing published, empty map, listener running
ApiIdle ==
    /\ calls = <<>>
    /\ generated = 0
    /\ broker = {}
    /\ pending_responses = << >>
    /\ futures = << >>
    /\ lReceived = 0
    /\ lastMsg = NoMsg
    /\ resolved = {}
    /\ listenerUp = TRUE
    /\ lErrors = 0

Batches == 1..NumBatches

\* nothing delivered yet and the table rooms_management is empty
DeliverIdle ==
    /\ deliveries = 0
    /\ rooms_management = [r \in Units |-> 0]
    /\ overwritten = {}
    /\ synthesis = [batch |-> 0, rows |-> {}]
    /\ unitHandled = [b \in Batches |-> [r \in Units |-> 0]]
    /\ unitPosts = [b \in Batches |-> [r \in Units |-> 0]]
    /\ unitPostsFirst = [b \in Batches |-> [r \in Units |-> 0]]
    /\ chatHandled = 0
    /\ chatPosts = 0
    /\ chatPostsFirst = 0

\* the worker has joined its group on an empty partition
KafkaIdle ==
    /\ kEnd = 0
    /\ kPosition = 0
    /\ kCommitted = 0
    /\ kRunning = {}
    /\ kDone = {}
    /\ kUp = TRUE

NoResponse == [run |-> "none", list |-> "absent", items |-> << >>, error |-> "absent"]

\* no chat message is being handled
ChatIdle ==
    /\ wpc = "invoke"
    /\ wAttempt = 0
    /\ wInvocations = 0
    /\ wSleeps = << >>
    /\ wResponse = NoResponse
    /\ wExhausted = FALSE
    /\ wIndex = 0
    /\ wPosted = << >>

Handlers == 1..InFlight

\* the handlers in flight have entered the semaphore section and await their
\* first workflow.ainvoke
LoopIdle ==
    /\ hpc = [h \in Handlers |-> "invoke"]
    /\ hAttempt = [h \in Handlers |-> 0]
    /\ hLen = [h \in Handlers |-> 0]
    /\ hIndex = [h \in Handlers |-> 0]

RuleIds == 1..MaxRules

NoCall == [rules |-> << >>, outcome |-> "none", returned |-> 0]

\* GuardrailsManager() has been constructed with its configuration loaded and
\* _get_or_create_rails_app has not been called
RailsIdle ==
    /\ base_config = "loaded"
    /\ rails_apps_cache = << >>
    /\ gmCalls = 0
    /\ gmApps = 0
    /\ gmBuilds = [S \in SUBSET RuleIds |-> 0]
    /\ gmFailures = [S \in SUBSET RuleIds |-> 0]
    /\ gmReturned = [S \in SUBSET RuleIds |-> {}]
    /\ gmLast = NoCall

NoUpdate == [next_node |-> "unset", id |-> "unset", agent_id_executed |-> "unset"]

\* the orchestrator has not been scheduled
OrchIdle ==
    /\ opc = "begin"
    /\ oSummary = "summary"
    /\ oRoom = "room"
    /\ oAttempt = 0
    /\ oCalls = 0
    /\ oLog = << >>
    /\ oResult = NoUpdate

Requests == 1..MaxRequests

\* no request has arrived
EndpointIdle ==
    /\ qEndpoint = [r \in Requests |-> "none"]
    /\ qpc = [r \in Requests |-> "new"]
    /\ qProducer = [r \in Requests |-> "none"]

(***************************************************************************)
(* Consumer worker                                                         *)
(***************************************************************************)
MsgIds == 1..MaxMsgs

Min(S) == CHOOSE x \in S : \A y \in S : x <= y

\* Variant in which leaving the section gives no permit back.
SemNeverReleased(value, raised) == value

\* Variant in which the permit is given back only when the body returned.
SemReleaseOnReturnOnly(value, raised) == IF raised THEN value ELSE value + 1

\* asyncio.Semaphore.__aexit__: the permit goes back whether the body
\* returned or raised.
SemRelease(value, raised) == value + 1

\* state after consumer.start(), producer.start(), Semaphore(SEMAPHORE_LIMIT), tasks = set()
ConsumerInit ==
    /\ cpc = "consuming"
    /\ received = 0
    /\ tasks = {}
    /\ inside = {}
    /\ semaphore = SEMAPHORE_LIMIT
    /\ consumerUp = TRUE
    /\ producerUp = TRUE
    /\ lastExit = "none"
    /\ waited = {}

\* async for msg in consumer: create_task(process_message(...)); tasks.add(task)
Receive ==
    /\ cpc = "consuming"
    /\ consumerUp
    /\ received < MaxMsgs
    /\ received' = received + 1
    /\ tasks' = tasks \cup {received + 1}
    /\ waited' = IF semaphore = 0 THEN waited \cup {received + 1} ELSE waited
    /\ UNCHANGED <<cpc, inside, semaphore, consumerUp, producerUp, lastExit>>
    /\ UNCHANGED notConsumerVars

\* process_message: `async with semaphore` entered; the waiters of an
\* asyncio.Semaphore are served in arrival order.
Acquire(t) ==
    /\ t \in tasks \ inside
    /\ t = Min(tasks \ inside)
    /\ semaphore > 0
    /\ semaphore' = semaphore - 1
    /\ inside' = inside \cup {t}
    /\ waited' = IF semaphore = 1 THEN waited \cup (tasks \ (inside \cup {t})) ELSE waited
    /\ UNCHANGED <<cpc, received, tasks, consumerUp, producerUp, lastExit>>
    /\ UNCHANGED notConsumerVars

\* Variant in which a handler's exception is raised into the consume loop.
LoopStopsOnRaise(pc, raised) ==
    IF raised /\ pc = "consuming" THEN "stop_consumer" ELSE pc

\* position of consume() after a handler ended: the handler is a task of its
\* own (asyncio.create_task) and process_message catches its exceptions, so
\* the loop is where it was
LoopAfterHandler(pc, raised) == pc

\* process_message: the handler body ends (returned, or raised and the
\* exception was logged by the except clause); the semaphore section is left
\* and the done callback discards the task from `tasks`.
Finish(t, raised) ==
    /\ t \in inside
    /\ inside' = inside \ {t}
    /\ tasks' = tasks \ {t}
    /\ semaphore' = SemRelease(semaphore, raised)
    /\ lastExit' = IF raised THEN "raised" ELSE "returned"
    /\ cpc' = LoopAfterHandler(cpc, raised)
    /\ UNCHANGED <<received, consumerUp, producerUp, waited>>
    /\ UNCHANGED notConsumerVars

\* the `async for` is left (cancellation or a consumer error): finally block entered
BeginShutdown ==
    /\ cpc = "consuming"
    /\ cpc' = "stop_consumer"
    /\ UNCHANGED <<received, tasks, inside, semaphore, consumerUp, producerUp, lastExit, waited>>
    /\ UNCHANGED notConsumerVars

\* finally: await consumer.stop()
StopConsumer ==
    /\ cpc = "stop_consumer"
    /\ consumerUp' = FALSE
    /\ cpc' = "stop_producer"
    /\ UNCHANGED <<received, tasks, inside, semaphore, producerUp, lastExit, waited>>
    /\ UNCHANGED notConsumerVars

\* finally: await producer.stop()
StopProducer ==
    /\ cpc = "stop_producer"
    /\ producerUp' = FALSE
    /\ cpc' = "gather"
    /\ UNCHANGED <<received, tasks, inside, semaphore, consumerUp, lastExit, waited>>
    /\ UNCHANGED notConsumerVars

\* finally: await asyncio.gather(*tasks) returns once every remaining task is done
Gather ==
    /\ cpc = "gather"
    /\ tasks = {}
    /\ cpc' = "exited"
    /\ UNCHANGED <<received, tasks, inside, semaphore, consumerUp, producerUp, lastExit, waited>>
    /\ UNCHANGED notConsumerVars

(***************************************************************************)
(* Room-suggestion batch: the handlers of the messages of one batch (one   *)
(* uuid), one message per room, the last one flagged is_last.  The         *)
(* handlers are tasks of the consumer and interleave at their awaits.      *)
(***************************************************************************)
\* request.is_last of the batch's messages
is_last(m) == m = BatchSize

\* handlers created and not finished
BRunningPcs == {"single", "error_webhook", "final", "final_webhook", "except_webhook"}

BEndPcs == {"done", "rejected", "failed"}

\* results of one session.post: the status of the response (200 or another
\* one), or a transport error raised by the request
PostResults == {"200", "500", "raise"}

\* Variant of send_webhook that posts once more after a non-200 response.
SendWebhookRepostOnFailure(m, kind, resp) ==
    /\ posts' = [posts EXCEPT ![m] = IF resp = "500" THEN @ + 2 ELSE @ + 1]
    /\ lastPayload' = [lastPayload EXCEPT ![m] = kind]
    /\ webhookLog' = [webhookLog EXCEPT ![m] =
                         IF resp = "raise" THEN @
                         ELSE Append(@, IF resp = "200" THEN "sent" ELSE "failed")]

\* send_webhook: one session.post; status 200 is logged as sent, any other
\* status as failed.  A transport error raises out of send_webhook.
send_webhook(m, kind, resp) ==
    /\ posts' = [posts EXCEPT ![m] = @ + 1]
    /\ lastPayload' = [lastPayload EXCEPT ![m] = kind]
    /\ webhookLog' = [webhookLog EXCEPT ![m] =
                         IF resp = "raise" THEN @
                         ELSE Append(@, IF resp = "200" THEN "sent" ELSE "failed")]

\* consume: the next message of the batch is received and its task created
BReceive ==
    /\ bReceived < BatchSize
    /\ bReceived' = bReceived + 1
    /\ bpc' = [bpc EXCEPT ![bReceived + 1] = "created"]
    /\ UNCHANGED <<posts, lastPayload, db, finalRead, webhookLog, singleResult>>
    /\ UNCHANGED notBatchVars

\* process_message enters the semaphore section (tasks start in the order of
\* their creation); the handler validates the request (outside its try) and
\* creates the agent (inside it), up to the first await of the single-room
\* workflow.
BStart(m, outcome) ==
    /\ bpc[m] = "created"
    /\ \A k \in Units : k < m => bpc[k] # "created"
    /\ Cardinality({k \in Units : bpc[k] \in BRunningPcs}) < SEMAPHORE_LIMIT
    /\ bpc' = [bpc EXCEPT ![m] =
                 CASE outcome = "ok" -> "single"
                   [] outcome = "invalid" -> "rejected"
                   [] outcome = "create_raises" -> "except_webhook"]
    /\ UNCHANGED <<bReceived, posts, lastPayload, db, finalRead, webhookLog, singleResult>>
    /\ UNCHANGED notBatchVars

\* Variant of generate_room_suggestion that reports a failed insert in the
\* error field and returns no suggestion.
GenerateRoomSuggestionFailsOnInsert(outcome) ==
    CASE outcome = "stored" ->
           [room_suggestion |-> "suggestion", error |-> "None", stored |-> TRUE, log |-> "stored"]
      [] outcome = "not_stored" ->
           [room_suggestion |-> "None", error |-> "err", stored |-> FALSE, log |-> "store_failed"]
      [] outcome = "error" ->
           [room_suggestion |-> "None", error |-> "err", stored |-> FALSE,
            log |-> "generation_failed"]

\* GenerateRoomSuggestionNode.execute: what it returns, whether the row was
\* inserted, and what it logged
generate_room_suggestion(outcome) ==
    CASE outcome = "stored" ->
           [room_suggestion |-> "suggestion", error |-> "None", stored |-> TRUE, log |-> "stored"]
      [] outcome = "not_stored" ->
           [room_suggestion |-> "suggestion", error |-> "None", stored |-> FALSE,
            log |-> "store_failed"]
      [] outcome = "error" ->
           [room_suggestion |-> "None", error |-> "err", stored |-> FALSE,
            log |-> "generation_failed"]

\* single_room_workflow.ainvoke completes.  stored: generate_room_suggestion
\* inserted the row of this room; not_stored: the insert failed and was
\* logged, error is None; error: the suggestion could not be generated, the
\* error field is set; raise: the workflow raised.  Then lines 192-203.
BSingleRoom(m, outcome) ==
    /\ bpc[m] = "single"
    /\ IF outcome = "raise"
       THEN /\ bpc' = [bpc EXCEPT ![m] = "except_webhook"]
            /\ UNCHANGED <<db, singleResult>>
       ELSE LET res == generate_room_suggestion(outcome) IN
            /\ singleResult' = [singleResult EXCEPT ![m] = res]
            /\ db' = IF res.stored THEN db \cup {m} ELSE db
            /\ bpc' = [bpc EXCEPT ![m] =
                         IF res.error # "None" /\ is_last(m) THEN "error_webhook"
                         ELSE IF is_last(m) THEN "final" ELSE "done"]
    /\ UNCHANGED <<bReceived, posts, lastPayload, finalRead, webhookLog>>
    /\ UNCHANGED notBatchVars

\* lines 196-200: the single-room workflow failed on the last message:
\* POST {"suggestion": {}}, then go on to line 203
BErrorWebhook(m, resp) ==
    /\ bpc[m] = "error_webhook"
    /\ send_webhook(m, "empty", resp)
    /\ bpc' = [bpc EXCEPT ![m] = IF resp = "raise" THEN "except_webhook" ELSE "final"]
    /\ UNCHANGED <<bReceived, db, finalRead, singleResult>>
    /\ UNCHANGED notBatchVars

\* lines 203-227: final_analysis_workflow.ainvoke: analyze_room_suggestions
\* reads the rows of rooms_management; no row, or a failure of the analysis,
\* sets the error field.
BFinalAnalysis(m, outcome) ==
    /\ bpc[m] = "final"
    /\ outcome = "ok" => db # {}
    /\ finalRead' = [finalRead EXCEPT ![m] = [ran |-> TRUE, rows |-> db]]
    /\ bpc' = [bpc EXCEPT ![m] =
                 CASE outcome = "ok" -> "final_webhook"
                   [] outcome = "error" -> "final_webhook"
                   [] outcome = "raise" -> "except_webhook"]
    /\ lastPayload' = [lastPayload EXCEPT ![m] =
                 CASE outcome = "ok" -> "pending_final"
                   [] outcome = "error" -> "pending_error"
                   [] outcome = "raise" -> @]
    /\ UNCHANGED <<bReceived, posts, db, webhookLog, singleResult>>
    /\ UNCHANGED notBatchVars

\* line 230: POST of the final payload
BFinalWebhook(m, resp) ==
    /\ bpc[m] = "final_webhook"
    /\ send_webhook(m, IF lastPayload[m] = "pending_final" THEN "final" ELSE "error", resp)
    /\ bpc' = [bpc EXCEPT ![m] = IF resp = "raise" THEN "except_webhook" ELSE "done"]
    /\ UNCHANGED <<bReceived, db, finalRead, singleResult>>
    /\ UNCHANGED notBatchVars

\* lines 234-242: except Exception: POST of an error payload, whatever
\* is_last; if this POST raises, the exception leaves the handler and is
\* logged by process_message.
BExceptWebhook(m, resp) ==
    /\ bpc[m] = "except_webhook"
    /\ send_webhook(m, "error", resp)
    /\ bpc' = [bpc EXCEPT ![m] = IF resp = "raise" THEN "failed" ELSE "done"]
    /\ UNCHANGED <<bReceived, db, finalRead, singleResult>>
    /\ UNCHANGED notBatchVars

InitBatch ==
    /\ BatchIdle
    /\ ConsumerInit
    /\ RetryIdle
    /\ GraphIdle
    /\ ApiIdle
    /\ DeliverIdle
    /\ KafkaIdle
    /\ ChatIdle
    /\ LoopIdle
    /\ RailsIdle
    /\ OrchIdle
    /\ EndpointIdle

NextBatch ==
    \/ BReceive
    \/ \E m \in Units, outcome \in {"ok", "invalid", "create_raises"} : BStart(m, outcome)
    \/ \E m \in Units, outcome \in {"stored", "not_stored", "error", "raise"} : BSingleRoom(m, outcome)
    \/ \E m \in Units, resp \in PostResults : BErrorWebhook(m, resp)
    \/ \E m \in Units, outcome \in {"ok", "error", "raise"} : BFinalAnalysis(m, outcome)
    \/ \E m \in Units, resp \in PostResults : BFinalWebhook(m, resp)
    \/ \E m \in Units, resp \in PostResults : BExceptWebhook(m, resp)

SpecBatch == InitBatch /\ [][NextBatch]_vars

(***************************************************************************)
(* Retry loop of PersonalizeNode.execute and                               *)
(* GenerateMessageSuggestionsNode.execute (the two loops are the same      *)
(* code).                                                                  *)
(***************************************************************************)
RetryNodes == {"personalize", "generate_message_suggestions"}

\* parsed outputs (_parse_output) the model call can come back with
Suggestions == {"", "ok", "Sin Sugerencias", "(sin sugerencias)", "claro, hablemos"}

\* outcomes of one model call: it raises, or its parsed output
CallOutcomes == {"raise"} \cup Suggestions

\* str.lower on the outputs of the model
Lower(text) == IF text = "Sin Sugerencias" THEN "sin sugerencias" ELSE text

\* Variant of _is_valid without the minimum length.
IsValidAnyLength(text) ==
    /\ text # ""
    /\ Lower(text) \notin {"(sin sugerencias)", "sin sugerencias"}

\* _is_valid
_is_valid(text) ==
    /\ text # ""
    /\ Lower(text) \notin {"(sin sugerencias)", "sin sugerencias"}
    /\ Len(text) >= MIN_ACCEPTED_LEN

\* `if attempt < self.MAX_ATTEMPTS` : another attempt follows
MoreAttemptsOffByOne(a) == a < MAX_ATTEMPTS - 1

MoreAttempts(a) == a < MAX_ATTEMPTS

\* the update returned after the loop (last return statement of execute)
ExhaustedUpdate(err) == [answer |-> "", error |-> "None"]

\* execute up to the loop.  PersonalizeNode looks up the agent to execute
\* (IndexError when the room has no agent with that id) and returns early
\* when there is no conversation summary; then initialize_tool_agent gives an
\* executor or None.
RBegin(found, hasMessages, executor) ==
    /\ rpc = "begin"
    /\ rNode = "generate_message_suggestions" => (found /\ hasMessages)
    /\ IF ~found
       THEN /\ rpc' = "raised"
            /\ UNCHANGED <<agent_executor, rReturn, result>>
       ELSE IF ~hasMessages
       THEN /\ rpc' = "returned"
            /\ rReturn' = "early"
            /\ result' = [answer |-> "absent", error |-> "absent"]
            /\ UNCHANGED agent_executor
       ELSE /\ rpc' = IF executor THEN "tool" ELSE "direct"
            /\ agent_executor' = executor
            /\ UNCHANGED <<rReturn, result>>
    /\ UNCHANGED <<rNode, attempt, toolCalls, directCalls, backoff, sleeps, last_error,
                   lastOut>>
    /\ UNCHANGED notRetryVars

\* `if agent_executor:` branch of one attempt: agent_executor.ainvoke
RToolCall(out) ==
    /\ rpc = "tool"
    /\ toolCalls' = toolCalls + 1
    /\ lastOut' = out
    /\ IF out # "raise" /\ _is_valid(out)
       THEN /\ rpc' = "returned"
            /\ rReturn' = "valid"
            /\ result' = [answer |-> out, error |-> "None"]
            /\ UNCHANGED last_error
       ELSE /\ rpc' = "direct"
            /\ last_error' = IF out = "raise" THEN "tool-agent: exception" ELSE last_error
            /\ UNCHANGED <<rReturn, result>>
    /\ UNCHANGED <<rNode, attempt, agent_executor, directCalls, backoff, sleeps>>
    /\ UNCHANGED notRetryVars

\* rest of one attempt: llm_manager.ainvoke; after the last failed attempt
\* the loop ends and execute returns the default answer
RDirectCall(out) ==
    /\ rpc = "direct"
    /\ directCalls' = directCalls + 1
    /\ lastOut' = out
    /\ IF out # "raise" /\ _is_valid(out)
       THEN /\ rpc' = "returned"
            /\ rReturn' = "valid"
            /\ result' = [answer |-> out, error |-> "None"]
            /\ UNCHANGED last_error
       ELSE /\ last_error' = IF out = "raise" THEN "exception"
                                              ELSE "Respuesta vacia o no utilizable"
            /\ IF MoreAttempts(attempt)
               THEN /\ rpc' = "backoff"
                    /\ UNCHANGED <<rReturn, result>>
               ELSE /\ rpc' = "returned"
                    /\ rReturn' = "exhausted"
                    /\ result' = ExhaustedUpdate(last_error')
    /\ UNCHANGED <<rNode, attempt, agent_executor, toolCalls, backoff, sleeps>>
    /\ UNCHANGED notRetryVars

\* Variant with a backoff that grows by a constant step.
NextBackoffLinear(b) == b + INITIAL_BACKOFF_TENTHS

\* backoff *= 2
NextBackoff(b) == b * 2

\* await asyncio.sleep(backoff); backoff *= 2; next iteration
RSleep ==
    /\ rpc = "backoff"
    /\ sleeps' = Append(sleeps, backoff)
    /\ backoff' = NextBackoff(backoff)
    /\ attempt' = attempt + 1
    /\ rpc' = IF agent_executor THEN "tool" ELSE "direct"
    /\ UNCHANGED <<rNode, agent_executor, toolCalls, directCalls, last_error, rReturn, result,
                   lastOut>>
    /\ UNCHANGED notRetryVars

InitRetry ==
    /\ rNode \in RetryNodes
    /\ rpc = "begin"
    /\ attempt = 1
    /\ agent_executor = FALSE
    /\ toolCalls = 0
    /\ directCalls = 0
    /\ backoff = INITIAL_BACKOFF_TENTHS
    /\ sleeps = <<>>
    /\ last_error = "None"
    /\ rReturn = "none"
    /\ result = [answer |-> "unset", error |-> "unset"]
    /\ lastOut = "none"
    /\ ConsumerInit
    /\ BatchIdle
    /\ GraphIdle
    /\ ApiIdle
    /\ DeliverIdle
    /\ KafkaIdle
    /\ ChatIdle
    /\ LoopIdle
    /\ RailsIdle
    /\ OrchIdle
    /\ EndpointIdle

NextRetry ==
    \/ \E found \in BOOLEAN, hasMessages \in BOOLEAN, executor \in BOOLEAN :
           RBegin(found, hasMessages, executor)
    \/ \E out \in CallOutcomes : RToolCall(out)
    \/ \E out \in CallOutcomes : RDirectCall(out)
    \/ RSleep

SpecRetry == InitRetry /\ [][NextRetry]_vars

(***************************************************************************)
(* Workflows of MultiAgents and one run of a compiled workflow.            *)
(* workflow.ainvoke runs the graph in supersteps: the nodes scheduled in a *)
(* superstep run concurrently and read the state of its start; when all of *)
(* them have returned, their updates are merged and every node that is the *)
(* target of an edge of a node of this superstep is scheduled for the next *)
(* one.  An exception raised by a node escapes ainvoke.  A run that has    *)
(* used recursion_limit supersteps is stopped with GraphRecursionError.    *)
(***************************************************************************)
Workflows == {"chat", "suggestions", "message_suggestions", "room_suggestions",
              "final_room_analysis", "rule_creation_wizard"}

ExtractNodes == {"extract_frequent_words", "extract_frequent_emojis",
                 "extract_frequent_hashtags", "extract_mentioned_users"}

\* Variant of create_workflow in which slang_analysis is also an entry node.
EdgesSlangFromStart(w) ==
    CASE w = "chat" ->
           {<<"START", "summarize_content">>, <<"START", "get_room_info">>,
            <<"START", "slang_analysis">>,
            <<"get_room_info", "slang_analysis">>, <<"summarize_content", "slang_analysis">>,
            <<"slang_analysis", "orchestrator">>,
            <<"validator", "speech_validator">>, <<"speech_validator", "agent_reply_splitter">>,
            <<"agent_reply_splitter", "END">>}
      [] w = "suggestions" ->
           {<<"START", "get_room_info">>, <<"get_room_info", "generate_topic_suggestions">>,
            <<"generate_topic_suggestions", "END">>}
      [] w = "message_suggestions" ->
           {<<"START", "generate_message_suggestions">>,
            <<"generate_message_suggestions", "agent_reply_splitter">>,
            <<"agent_reply_splitter", "END">>}
      [] w = "room_suggestions" ->
           {<<"START", n>> : n \in {"get_room_info", "analyze_main_topic"} \cup ExtractNodes}
           \cup {<<n, "generate_room_suggestion">> :
                    n \in {"get_room_info", "analyze_main_topic"} \cup ExtractNodes}
           \cup {<<"generate_room_suggestion", "END">>}
      [] w = "final_room_analysis" ->
           {<<"START", "analyze_room_suggestions">>, <<"analyze_room_suggestions", "END">>}
      [] w = "rule_creation_wizard" ->
           {<<"START", "rule_creation_wizard">>, <<"rule_creation_wizard", "END">>}

\* Variant of create_room_suggestions_workflow in which the four extract
\* nodes run after get_room_info instead of from START.
EdgesExtractAfterRoomInfo(w) ==
    CASE w = "chat" ->
           {<<"START", "summarize_content">>, <<"START", "get_room_info">>,
            <<"get_room_info", "slang_analysis">>, <<"summarize_content", "slang_analysis">>,
            <<"slang_analysis", "orchestrator">>,
            <<"validator", "speech_validator">>, <<"speech_validator", "agent_reply_splitter">>,
            <<"agent_reply_splitter", "END">>}
      [] w = "suggestions" ->
           {<<"START", "get_room_info">>, <<"get_room_info", "generate_topic_suggestions">>,
            <<"generate_topic_suggestions", "END">>}
      [] w = "message_suggestions" ->
           {<<"START", "generate_message_suggestions">>,
            <<"generate_message_suggestions", "agent_reply_splitter">>,
            <<"agent_reply_splitter", "END">>}
      [] w = "room_suggestions" ->
           {<<"START", n>> : n \in {"get_room_info", "analyze_main_topic"}}
           \cup {<<"get_room_info", n>> : n \in ExtractNodes}
           \cup {<<n, "generate_room_suggestion">> :
                    n \in {"get_room_info", "analyze_main_topic"} \cup ExtractNodes}
           \cup {<<"generate_room_suggestion", "END">>}
      [] w = "final_room_analysis" ->
           {<<"START", "analyze_room_suggestions">>, <<"analyze_room_suggestions", "END">>}
      [] w = "rule_creation_wizard" ->
           {<<"START", "rule_creation_wizard">>, <<"rule_creation_wizard", "END">>}

\* add_edge calls of each create_*_workflow; START and END are the sentinels.
Edges(w) ==
    CASE w = "chat" ->
           {<<"START", "summarize_content">>, <<"START", "get_room_info">>,
            <<"get_room_info", "slang_analysis">>, <<"summarize_content", "slang_analysis">>,
            <<"slang_analysis", "orchestrator">>,
            <<"validator", "speech_validator">>, <<"speech_validator", "agent_reply_splitter">>,
            <<"agent_reply_splitter", "END">>}
      [] w = "suggestions" ->
           {<<"START", "get_room_info">>, <<"get_room_info", "generate_topic_suggestions">>,
            <<"generate_topic_suggestions", "END">>}
      [] w = "message_suggestions" ->
           {<<"START", "generate_message_suggestions">>,
            <<"generate_message_suggestions", "agent_reply_splitter">>,
            <<"agent_reply_splitter", "END">>}
      [] w = "room_suggestions" ->
           {<<"START", n>> : n \in {"get_room_info", "analyze_main_topic"} \cup ExtractNodes}
           \cup {<<n, "generate_room_suggestion">> :
                    n \in {"get_room_info", "analyze_main_topic"} \cup ExtractNodes}
           \cup {<<"generate_room_suggestion", "END">>}
      [] w = "final_room_analysis" ->
           {<<"START", "analyze_room_suggestions">>, <<"analyze_room_suggestions", "END">>}
      [] w = "rule_creation_wizard" ->
           {<<"START", "rule_creation_wizard">>, <<"rule_creation_wizard", "END">>}

\* nodes with conditional edges (add_conditional_edges of create_workflow)
BranchNodes(w) == IF w = "chat" THEN {"orchestrator", "personalize"} ELSE {}

\* Variant of determine_next_node that falls back to the agent kind "junior"
\* when the orchestrator wrote no next_node.
DetermineNextNodeJunior(st) ==
    IF st.next_node = "unset" THEN "junior" ELSE st.next_node

\* determine_next_node: state.get("next_node", "__end__")
determine_next_node(st) ==
    IF st.next_node = "unset" THEN "__end__" ELSE st.next_node

\* path map of the conditional edges: {"personalize": "personalize",
\* "__end__": END} and {"personalize": "personalize", "validator": "validator"}
PathMap(key) == IF key = "__end__" THEN "END" ELSE key

\* check_personalize_failure
AlwaysRetryPersonalize(st) == "personalize"

\* Variant that takes an empty answer of personalize as its failure.
RetryPersonalizeOnEmptyAnswer(st) ==
    IF st.answer = "" THEN "personalize" ELSE "validator"

check_personalize_failure(st) ==
    IF st.personalize_failed THEN "personalize" ELSE "validator"

\* keys of the path map passed to add_conditional_edges for branching node n
PathKeys(n) ==
    IF n = "orchestrator" THEN {"personalize", "__end__"} ELSE {"personalize", "validator"}

\* value the selector of branching node n returns on state st
Selected(n, st) ==
    IF n = "orchestrator" THEN determine_next_node(st) ELSE check_personalize_failure(st)

\* branching nodes of the superstep whose selector returned a value that is
\* no key of their path map: the lookup of the destination raises KeyError
UnmappedBranches(w, active, st) ==
    {n \in active \cap BranchNodes(w) : Selected(n, st) \notin PathKeys(n)}

\* targets of the edges leaving node n, given the merged state st
Targets(w, n, st) ==
    {e[2] : e \in {d \in Edges(w) : d[1] = n}}
    \cup (IF n \in BranchNodes(w) THEN {PathMap(Selected(n, st))} ELSE {})

\* unconditional predecessors of a node
Preds(w, n) == {e[1] : e \in {d \in Edges(w) : d[2] = n}}

\* nodes added to the workflow
NodesOf(w) ==
    ({e[1] : e \in Edges(w)} \cup {e[2] : e \in Edges(w)} \cup BranchNodes(w)
        \cup (IF w = "chat" THEN {"validator"} ELSE {}))
    \ {"START", "END"}

\* add_node calls of each create_*_workflow
AddedNodes(w) ==
    CASE w = "chat" ->
           {"summarize_content", "get_room_info", "slang_analysis", "orchestrator",
            "personalize", "validator", "agent_reply_splitter", "speech_validator",
            "generate_topic_suggestions"}
      [] w = "suggestions" -> {"get_room_info", "generate_topic_suggestions"}
      [] w = "message_suggestions" -> {"generate_message_suggestions", "agent_reply_splitter"}
      [] w = "room_suggestions" ->
           {"get_room_info", "analyze_main_topic", "generate_room_suggestion"} \cup ExtractNodes
      [] w = "final_room_analysis" -> {"analyze_room_suggestions"}
      [] w = "rule_creation_wizard" -> {"rule_creation_wizard"}

\* every destination an edge of the workflow can lead to from node n: the
\* targets of its add_edge calls and the values of its path map
Successors(w, n) ==
    {e[2] : e \in {d \in Edges(w) : d[1] = n}}
    \cup (IF n \in BranchNodes(w) THEN {PathMap(k) : k \in PathKeys(n)} ELSE {})

\* nodes and sentinels reachable from the set seen along the workflow's edges
RECURSIVE ReachableFrom(_, _)
ReachableFrom(w, seen) ==
    LET more == seen \cup UNION {Successors(w, n) : n \in seen}
    IN  IF more = seen THEN seen ELSE ReachableFrom(w, more)

\* recursion_limit of the config passed to ainvoke for each workflow
LimitOf(w) ==
    IF w \in {"chat", "room_suggestions", "message_suggestions", "rule_creation_wizard"}
    THEN RECURSION_LIMIT ELSE DEFAULT_RECURSION_LIMIT

\* outcomes that are an exception leaving the node's execute
RaiseKinds == {"raise", "attribute_error", "index_error", "invalid_update"}

\* ValidationNode.execute (nodes/validator.py): it returns or raises
ValidatorOutcomes == {"validated", "raise"}

\* the ways execute of node n can end when it reads state st
Outcomes(n, st) ==
    CASE n = "summarize_content" -> {"summary", "llm_failed", "raise"}
      [] n = "get_room_info" -> {"room", "no_room"}
      [] n = "slang_analysis" ->
           IF st.room_details # "room" THEN {"skipped"}
           ELSE {"analyses", "none_found", "raise"}
      [] n = "orchestrator" ->
           IF st.conversation_summary # "summary" THEN {"decision_junior", "invalid_update"}
           ELSE IF st.room_details # "room" THEN {"attribute_error"}
           ELSE {"personalize", "end", "raise"}
      [] n = "personalize" ->
           IF st.slang_context # "analyses" THEN {"attribute_error"}
           ELSE {"answer", "exhausted", "attribute_error", "raise"}
      [] n = "validator" -> ValidatorOutcomes
      [] n = "speech_validator" ->
           IF st.answer \in {"", "unset"} THEN {"empty"} ELSE {"refined", "kept_draft"}
      [] n = "agent_reply_splitter" ->
           IF st.answer \in {"", "unset"} THEN {"no_messages"}
           ELSE {"messages", "index_error", "raise"}
      [] n \in ExtractNodes -> {"counted"}
      [] n = "analyze_main_topic" ->
           {"topics", "llm_failed", "main_topic_general", "invalid_update", "raise"}
      [] n = "generate_room_suggestion" -> {"stored", "not_stored", "error", "raise"}
      [] n = "analyze_room_suggestions" -> {"analysis", "error"}
      [] n = "generate_topic_suggestions" ->
           IF st.room_details # "room" THEN {"attribute_error"}
           ELSE {"suggestions", "llm_failed", "raise"}
      [] n = "generate_message_suggestions" -> {"answer", "exhausted", "raise"}
      [] n = "rule_creation_wizard" -> {"rule", "failed", "raise"}

\* the state update node n returns with outcome o (fields not listed are
\* not written)
Update(n, o) ==
    CASE n = "summarize_content" ->
           ("conversation_summary" :> (IF o = "summary" THEN "summary" ELSE ""))
      [] n = "get_room_info" ->
           ("room_details" :> (IF o = "room" THEN "room" ELSE "None"))
      [] n = "slang_analysis" ->
           ("slang_context" :> (IF o = "analyses" THEN "analyses" ELSE ""))
      [] n = "orchestrator" /\ o = "personalize" -> ("next_node" :> "personalize")
      [] n = "orchestrator" /\ o = "end" -> ("next_node" :> "__end__")
      [] n \in {"personalize", "generate_message_suggestions"} ->
           ("answer" :> (IF o = "answer" THEN "draft" ELSE "")) @@ ("error" :> "None")
      [] n = "speech_validator" ->
           ("answer" :> (IF o = "empty" THEN "" ELSE IF o = "refined" THEN "refined" ELSE "draft"))
      [] n \in {"generate_room_suggestion", "analyze_room_suggestions"} ->
           ("error" :> (IF o = "error" THEN "err" ELSE "None"))
      [] n = "generate_topic_suggestions" ->
           ("error" :> (IF o = "llm_failed" THEN "err" ELSE "None"))
      [] n = "rule_creation_wizard" -> ("answer" :> "text")
      [] n = "extract_frequent_words" -> ("frequent_words" :> "counts")
      [] n = "extract_frequent_emojis" -> ("frequent_emojis" :> "counts")
      [] n = "extract_frequent_hashtags" -> ("frequent_hashtags" :> "counts")
      [] n = "extract_mentioned_users" -> ("mentioned_users" :> "counts")
      [] n = "analyze_main_topic" /\ o = "topics" -> ("main_topics_group" :> "topics")
      [] n = "analyze_main_topic" /\ o = "llm_failed" -> ("main_topics_group" :> "[]")
      [] OTHER -> << >>

\* fields declared by InputState and by OutputState: the channels of a graph
\* built with StateGraph(input=InputState, output=OutputState)
InputStateKeys ==
    {"stream_handler", "messages", "question", "conversation_summary", "room_id", "uui_id",
     "agent_name", "group_context", "room_details", "latest_news_summary",
     "question_answer_summary", "next_node", "personalize_agent", "validation_retries",
     "slang_context", "answer", "agent_info", "topic", "personalize_retries",
     "personalize_failed", "frequent_words", "frequent_emojis", "frequent_hashtags",
     "rooms_created", "previous_rooms", "mentioned_users", "main_topics_group",
     "room_suggestion", "final_analysis", "error", "user_query"}

OutputStateKeys ==
    {"answer", "run_id", "session_id", "agent_id_executed", "list_message", "suggestions",
     "room_suggestion", "final_analysis", "error"}

\* keys of the dict that node n of the chat or room-suggestion workflow
\* returns with outcome o
ReturnedKeys(n, o) ==
    CASE n = "summarize_content" ->
           IF o = "summary" THEN {"conversation_summary", "question", "agent_name"}
           ELSE {"conversation_summary"}
      [] n = "get_room_info" -> {"room_details"}
      [] n = "slang_analysis" -> {"slang_context"}
      [] n = "orchestrator" ->
           IF o = "decision_junior" THEN {"decision"}
           ELSE IF o = "personalize" THEN {"next_node", "personalize_agent", "agent_id_executed"}
           ELSE {"next_node", "agent_id_executed"}
      [] n = "personalize" -> {"answer", "error"}
      [] n = "speech_validator" -> {"answer"}
      [] n = "agent_reply_splitter" -> {"list_message"}
      [] n = "extract_frequent_words" -> {"frequent_words"}
      [] n = "extract_frequent_emojis" -> {"frequent_emojis"}
      [] n = "extract_frequent_hashtags" -> {"frequent_hashtags"}
      [] n = "extract_mentioned_users" -> {"mentioned_users"}
      [] n = "analyze_main_topic" ->
           IF o = "main_topic_general" THEN {"main_topic"} ELSE {"main_topics_group"}
      [] n = "generate_room_suggestion" -> {"room_suggestion", "error"}
      [] OTHER -> {}

\* Variant of the merge in which an update replaces the whole state: the
\* fields it does not write fall back to their initial value.
MergeReplacesState(st, upd) ==
    [f \in DOMAIN st |-> IF f \in DOMAIN upd THEN upd[f] ELSE UnsetState[f]]

\* merge of an update into the run state (every field keeps its last value)
Merge(st, upd) ==
    [f \in DOMAIN st |-> IF f \in DOMAIN upd THEN upd[f] ELSE st[f]]

\* the superstep is over when every node scheduled in it has returned
StepComplete(active, finished) == finished = active

\* nodes scheduled for the next superstep
NextNodes(w, active, st) ==
    (UNION {Targets(w, n, st) : n \in active}) \ {"END"}

\* a node of the current superstep starts executing
GNodeStart(n) ==
    /\ gStatus = "running"
    /\ n \in gActive \ gStarted
    /\ gStarted' = gStarted \cup {n}
    /\ gExecs' = gExecs + 1
    /\ UNCHANGED <<gWorkflow, gLimit, gStatus, gRaised, gStep, gActive, gFinished,
                   gState, gNext, completed, gOutcome, gOrder>>
    /\ UNCHANGED notGraphVars

\* a started node ends: it returns its update, or an exception leaves it and
\* aborts the run
GNodeFinish(n, o) ==
    /\ gStatus = "running"
    /\ n \in gStarted \ gFinished
    /\ o \in Outcomes(n, gState)
    /\ IF o \in RaiseKinds
       THEN /\ gStatus' = "raised"
            /\ gRaised' = [node |-> n, kind |-> o]
            /\ UNCHANGED <<gFinished, gNext, completed, gOutcome, gOrder>>
       ELSE /\ gFinished' = gFinished \cup {n}
            /\ completed' = completed \cup {n}
            /\ gOutcome' = (n :> o) @@ gOutcome
            /\ gOrder' = Append(gOrder, n)
            /\ gNext' = Merge(gNext, Update(n, o))
            /\ UNCHANGED <<gStatus, gRaised>>
    /\ UNCHANGED <<gWorkflow, gLimit, gStep, gActive, gStarted, gState, gExecs>>
    /\ UNCHANGED notGraphVars

\* end of a superstep: the updates become visible; a selector value outside
\* the path map aborts the run with KeyError; the run is stopped when
\* recursion_limit supersteps are used up, ends when nothing is scheduled,
\* and otherwise goes on with the next superstep
GStepEnd ==
    /\ gStatus = "running"
    /\ gActive # {}
    /\ StepComplete(gActive, gFinished)
    /\ gState' = gNext
    /\ IF UnmappedBranches(gWorkflow, gActive, gNext) # {}
       THEN /\ gStatus' = "raised"
            /\ gRaised' = [node |-> CHOOSE n \in UnmappedBranches(gWorkflow, gActive, gNext) : TRUE,
                           kind |-> "key_error"]
            /\ UNCHANGED <<gStep, gActive, gStarted, gFinished>>
       ELSE IF gStep >= gLimit
       THEN /\ gStatus' = "raised"
            /\ gRaised' = [node |-> "none", kind |-> "recursion_limit"]
            /\ UNCHANGED <<gStep, gActive, gStarted, gFinished>>
       ELSE IF NextNodes(gWorkflow, gActive, gNext) = {}
       THEN /\ gStatus' = "done"
            /\ UNCHANGED <<gRaised, gStep, gActive, gStarted, gFinished>>
       ELSE /\ gStep' = gStep + 1
            /\ gActive' = NextNodes(gWorkflow, gActive, gNext)
            /\ gStarted' = {}
            /\ gFinished' = {}
            /\ UNCHANGED <<gStatus, gRaised>>
    /\ UNCHANGED <<gWorkflow, gLimit, gNext, gExecs, completed, gOutcome, gOrder>>
    /\ UNCHANGED notGraphVars

\* workflow.ainvoke has been called on one of the compiled workflows: the
\* targets of START are scheduled for the first superstep
InitGraph ==
    /\ gWorkflow \in Workflows
    /\ gLimit = LimitOf(gWorkflow)
    /\ gStatus = "running"
    /\ gRaised = NoRaise
    /\ gStep = 1
    /\ gActive = {e[2] : e \in {d \in Edges(gWorkflow) : d[1] = "START"}}
    /\ gStarted = {}
    /\ gFinished = {}
    /\ gState = UnsetState
    /\ gNext = UnsetState
    /\ gExecs = 0
    /\ completed = {}
    /\ gOutcome = << >>
    /\ gOrder = << >>
    /\ ConsumerInit
    /\ BatchIdle
    /\ RetryIdle
    /\ ApiIdle
    /\ DeliverIdle
    /\ KafkaIdle
    /\ ChatIdle
    /\ LoopIdle
    /\ RailsIdle
    /\ OrchIdle
    /\ EndpointIdle

NextGraph ==
    \/ \E n \in NodesOf(gWorkflow) : GNodeStart(n)
    \/ \E n \in NodesOf(gWorkflow) : \E o \in Outcomes(n, gState) : GNodeFinish(n, o)
    \/ GStepEnd

SpecGraph == InitGraph /\ [][NextGraph]_vars

\* Scheduling of a run: the tasks of the scheduled nodes are started, a
\* started node returns or raises, and a completed superstep is closed.
SpecGraphFair == InitGraph /\ [][NextGraph]_vars /\ WF_vars(NextGraph)

(***************************************************************************)
(* API process: POST /chat (invoke_chat_workflow) publishes a request to   *)
(* the agent topic; response_listener consumes the response topic and      *)
(* resolves the futures of the shared map pending_responses.               *)
(***************************************************************************)
\* InvokeWorkflowRequest.uuid: default "e481947b-5ee4-4638-bb18-084aad507a0f"
DEFAULT_UUID == 0
\* uuids a caller may put in the request
CallerUuids == {1}
\* the request has no uuid field / has the field set to ""
NoUuid == -1
EmptyUuid == -2
\* the n-th value of uuid.uuid4(): different from every other id
Uuid4(n) == 100 + n

\* value of request.uuid after validation of the body
request_uuid(supplied) == IF supplied = NoUuid THEN DEFAULT_UUID ELSE supplied

\* truth value of a string id ("" and None are falsy)
Truthy(id) == id \notin {NoUuid, EmptyUuid}

\* uuid_ = request.uuid or str(uuid.uuid4())
CorrelationId(supplied, n) ==
    IF Truthy(request_uuid(supplied)) THEN request_uuid(supplied) ELSE Uuid4(n + 1)

\* dict.pop(key) without returning the value
popKeepsEntry(map, key) == map

pop(map, key) == [k \in DOMAIN map \ {key} |-> map[k]]

\* invoke_chat_workflow: assigns the correlation id, sends the request and
\* returns; a producer failure becomes HTTP 500
Publish(supplied, sent) ==
    /\ Len(calls) < MaxCalls
    /\ LET id == CorrelationId(supplied, generated) IN
       /\ generated' = IF Truthy(request_uuid(supplied)) THEN generated ELSE generated + 1
       /\ broker' = IF sent THEN broker \cup {id} ELSE broker
       /\ calls' = Append(calls,
                     [supplied |-> supplied, uuid |-> id,
                      registered |-> id \in DOMAIN pending_responses,
                      answered |-> id \in resolved,
                      result |-> IF sent THEN "message_sent" ELSE "http_500"])
    /\ UNCHANGED <<pending_responses, futures, resolved, lReceived, lastMsg, listenerUp,
                   lErrors>>
    /\ UNCHANGED notApiVars

\* a holder of the shared map stores a fresh future under a correlation id
Register(id) ==
    /\ Cardinality(DOMAIN futures) < MaxCalls
    /\ Truthy(id)
    /\ LET f == Cardinality(DOMAIN futures) + 1 IN
       /\ futures' = futures @@ (f :> 0)
       /\ pending_responses' = (id :> f) @@ pending_responses
    /\ UNCHANGED <<calls, generated, broker, resolved, lReceived, lastMsg, listenerUp,
                   lErrors>>
    /\ UNCHANGED notApiVars

\* ids a message of the response topic may carry
ResponseIds == {NoUuid, DEFAULT_UUID} \cup CallerUuids
                  \cup {Uuid4(n) : n \in 1..generated}

\* payload of the n-th message of the response topic
Payload(n) == n

\* lines 85-87: a message whose value is not JSON makes json.loads raise
\* (JSONDecodeError), one whose JSON is not an object makes data.get raise
\* (AttributeError)
Raises(kind) == kind \in {"not_object", "not_json"}

\* Variant of the except clause that names the decoding error only:
\* `except json.JSONDecodeError`.
CaughtJsonErrorsOnly(kind) == kind = "not_json"

\* lines 96-97: `except Exception` inside the loop catches what the
\* processing of a message of this kind raises
Caught(kind) == kind \in {"not_object", "not_json"}

\* one iteration of the listener's loop.  kind: "object" (a JSON object whose
\* uui_id is id; NoUuid when the key is missing or empty), "not_object" (JSON
\* that is not an object: data.get raises), "not_json" (json.loads raises).
\* All exceptions are caught and logged inside the loop; an exception that
\* is not caught there leaves the loop through the finally clause.
ListenerReceive(kind, id, payload) ==
    /\ listenerUp
    /\ lReceived < MaxResponses
    /\ lReceived' = lReceived + 1
    /\ lastMsg' = [kind |-> kind, uui_id |-> id, payload |-> payload]
    /\ IF kind = "object" /\ Truthy(id) /\ id \in DOMAIN pending_responses
       THEN LET future == pending_responses[id] IN
            /\ pending_responses' = pop(pending_responses, id)
            /\ IF futures[future] = 0
               THEN /\ futures' = [futures EXCEPT ![future] = payload]
                    /\ resolved' = resolved \cup {id}
               ELSE UNCHANGED <<futures, resolved>>
       ELSE UNCHANGED <<pending_responses, futures, resolved>>
    /\ lErrors' = IF Raises(kind) /\ Caught(kind) THEN lErrors + 1 ELSE lErrors
    /\ listenerUp' = (Raises(kind) => Caught(kind))
    /\ UNCHANGED <<calls, generated, broker>>
    /\ UNCHANGED notApiVars

InitApi ==
    /\ ApiIdle
    /\ DeliverIdle
    /\ KafkaIdle
    /\ ChatIdle
    /\ ConsumerInit
    /\ BatchIdle
    /\ RetryIdle
    /\ GraphIdle
    /\ LoopIdle
    /\ RailsIdle
    /\ OrchIdle
    /\ EndpointIdle

NextApi ==
    \/ \E supplied \in {NoUuid, EmptyUuid} \cup CallerUuids, sent \in BOOLEAN :
          Publish(supplied, sent)
    \/ \E id \in ResponseIds : Register(id)
    \/ \E id \in ResponseIds : ListenerReceive("object", id, Payload(lReceived + 1))
    \/ \E kind \in {"not_object", "not_json"} :
          ListenerReceive(kind, NoUuid, Payload(lReceived + 1))

SpecApi == InitApi /\ [][NextApi]_vars

(***************************************************************************)
(* Downstream effects of deliveries.  Each action is one whole handler     *)
(* (process_chat_message / process_room_suggestion_message) run on one     *)
(* delivery of a message; the same message may be delivered again.  The    *)
(* rooms of every batch are Units, the last one carrying is_last.          *)
(***************************************************************************)
\* rows SELECTed by get_recent_documents("rooms_management", limit=1000)
get_recent_documents(tbl) == {<<r, tbl[r]>> : r \in {x \in Units : tbl[x] # 0}}

\* input of AnalyzeRoomSuggestionsNode run for batch b
FinalInput(tbl, b) == get_recent_documents(tbl)

\* insert_document(data = {"id": room_id, ...}, conflict_target = "id"):
\* INSERT ... ON CONFLICT (id) DO UPDATE
insert_document(tbl, r, b) == [tbl EXCEPT ![r] = b]

\* number of webhook POSTs one run of process_room_suggestion_message issues
UnitPostCount(r, outcome) ==
    CASE outcome = "raise" -> 1
      [] outcome = "error" -> IF is_last(r) THEN 2 ELSE 0
      [] OTHER -> IF is_last(r) THEN 1 ELSE 0

\* process_room_suggestion_message on a delivery of the message of room r of
\* batch b.  outcome: "stored" (row written), "not_stored" (the insert
\* failed and was logged), "error" (the single-room workflow reported an
\* error), "raise" (an exception reached the except clause)
HandleUnit(b, r, outcome) ==
    /\ deliveries < MaxDeliveries
    /\ deliveries' = deliveries + 1
    /\ rooms_management' = IF outcome = "stored"
                              THEN insert_document(rooms_management, r, b)
                              ELSE rooms_management
    /\ overwritten' = IF outcome = "stored" /\ rooms_management[r] \notin {0, b}
                         THEN overwritten \cup {<<r, rooms_management[r]>>}
                         ELSE overwritten
    /\ synthesis' = IF is_last(r) /\ outcome # "raise"
                       THEN [batch |-> b, rows |-> FinalInput(rooms_management', b)]
                       ELSE synthesis
    /\ unitHandled' = [unitHandled EXCEPT ![b][r] = @ + 1]
    /\ unitPosts' = [unitPosts EXCEPT ![b][r] = @ + UnitPostCount(r, outcome)]
    /\ unitPostsFirst' = IF unitHandled[b][r] = 0
                            THEN [unitPostsFirst EXCEPT ![b][r] = UnitPostCount(r, outcome)]
                            ELSE unitPostsFirst
    /\ UNCHANGED <<chatHandled, chatPosts, chatPostsFirst>>
    /\ UNCHANGED notDeliverVars

\* process_chat_message on a delivery of the chat request: k entries of
\* list_message pass the filters and each is POSTed to the webhook
HandleChat(k) ==
    /\ deliveries < MaxDeliveries
    /\ deliveries' = deliveries + 1
    /\ chatHandled' = chatHandled + 1
    /\ chatPosts' = chatPosts + k
    /\ chatPostsFirst' = IF chatHandled = 0 THEN k ELSE chatPostsFirst
    /\ UNCHANGED <<rooms_management, overwritten, synthesis, unitHandled, unitPosts,
                   unitPostsFirst>>
    /\ UNCHANGED notDeliverVars

InitDeliver ==
    /\ DeliverIdle
    /\ KafkaIdle
    /\ ChatIdle
    /\ ConsumerInit
    /\ BatchIdle
    /\ RetryIdle
    /\ GraphIdle
    /\ ApiIdle
    /\ LoopIdle
    /\ RailsIdle
    /\ OrchIdle
    /\ EndpointIdle

NextDeliver ==
    \/ \E b \in Batches, r \in Units, outcome \in {"stored", "not_stored", "error", "raise"} :
          HandleUnit(b, r, outcome)
    \/ \E k \in 0..MaxChatMessages : HandleChat(k)

SpecDeliver == InitDeliver /\ [][NextDeliver]_vars

(***************************************************************************)
(* Offsets of the worker's consumer: AIOKafkaConsumer(group_id =           *)
(* "agent-group", enable_auto_commit = True).  The consumer commits its    *)
(* position periodically in the background; a handler is a task started    *)
(* when its message is returned by the consumer.                           *)
(***************************************************************************)
\* offset committed by the periodic auto-commit: the consumer's position
CommitOffset(position, running) == position

\* a message is produced to the partition
KProduce ==
    /\ kEnd < MaxLog
    /\ kEnd' = kEnd + 1
    /\ UNCHANGED <<kPosition, kCommitted, kRunning, kDone, kUp>>
    /\ UNCHANGED notKafkaVars

\* async for msg in consumer: the next message is returned and its handler
\* task created
KFetch ==
    /\ kUp
    /\ kPosition < kEnd
    /\ kRunning' = kRunning \cup {kPosition}
    /\ kPosition' = kPosition + 1
    /\ UNCHANGED <<kEnd, kCommitted, kDone, kUp>>
    /\ UNCHANGED notKafkaVars

\* the background auto-commit of the consumer
KAutoCommit ==
    /\ kUp
    /\ kCommitted # CommitOffset(kPosition, kRunning)
    /\ kCommitted' = CommitOffset(kPosition, kRunning)
    /\ UNCHANGED <<kEnd, kPosition, kRunning, kDone, kUp>>
    /\ UNCHANGED notKafkaVars

\* the handler of the message at offset o runs to completion
KHandlerDone(o) ==
    /\ kUp
    /\ o \in kRunning
    /\ kRunning' = kRunning \ {o}
    /\ kDone' = kDone \cup {o}
    /\ UNCHANGED <<kEnd, kPosition, kCommitted, kUp>>
    /\ UNCHANGED notKafkaVars

\* the worker process crashes: its running handlers are gone
KCrash ==
    /\ kUp
    /\ kUp' = FALSE
    /\ kRunning' = {}
    /\ UNCHANGED <<kEnd, kPosition, kCommitted, kDone>>
    /\ UNCHANGED notKafkaVars

\* the worker is started again: the consumer resumes at the committed offset
KRestart ==
    /\ ~kUp
    /\ kUp' = TRUE
    /\ kPosition' = kCommitted
    /\ UNCHANGED <<kEnd, kCommitted, kRunning, kDone>>
    /\ UNCHANGED notKafkaVars

InitKafka ==
    /\ KafkaIdle
    /\ ChatIdle
    /\ ConsumerInit
    /\ BatchIdle
    /\ RetryIdle
    /\ GraphIdle
    /\ ApiIdle
    /\ DeliverIdle
    /\ LoopIdle
    /\ RailsIdle
    /\ OrchIdle
    /\ EndpointIdle

NextKafka ==
    \/ KProduce
    \/ KFetch
    \/ KAutoCommit
    \/ \E o \in 0..(MaxLog - 1) : KHandlerDone(o)
    \/ KCrash
    \/ KRestart

SpecKafka == InitKafka /\ [][NextKafka]_vars

(***************************************************************************)
(* Chat handler: process_chat_message invokes the chat workflow, invokes   *)
(* it again while the first message of the response carries a failure     *)
(* phrase, and POSTs the messages of the last response to the backend.     *)
(***************************************************************************)
WORKFLOW_FAILURE_MESSAGES ==
    {"Lo siento, no pude generar una respuesta en este momento.",
     "Agent stopped due to iteration limit or time limit",
     "Lo siento, ocurrió un error interno después de varios intentos",
     "Mensaje enviado al grupo"}

\* p in s (substring test)
Contains(s, p) ==
    \E i \in 1..(Len(s) - Len(p) + 1) : SubSeq(s, i, i + Len(p) - 1) = p

\* the characters of s at the positions of the set kept, in order
KeepChars(s, kept) ==
    LET join[lo \in 1..(Len(s) + 1), hi \in 0..Len(s)] ==
            IF lo > hi THEN ""
            ELSE IF lo = hi THEN (IF lo \in kept THEN SubSeq(s, lo, lo) ELSE "")
            ELSE join[lo, (lo + hi) \div 2] \o join[((lo + hi) \div 2) + 1, hi]
    IN  join[1, Len(s)]

\* s.replace(p, "") for a pattern p made of one repeated character (the two
\* patterns the handler removes are the backtick and "**"): the matches are
\* taken from left to right without overlap, so of a run of m such
\* characters the first Len(p) * (m \div Len(p)) are removed
RemoveAll(s, p) ==
    LET c == SubSeq(p, 1, 1)
        isC(i) == SubSeq(s, i, i) = c
        runStart(i) == CHOOSE r \in 1..i :
                          /\ \A k \in r..i : isC(k)
                          /\ (r = 1 \/ ~isC(r - 1))
        runEnd(i) == CHOOSE e \in i..Len(s) :
                          /\ \A k \in i..e : isC(k)
                          /\ (e = Len(s) \/ ~isC(e + 1))
        removed(i) == /\ isC(i)
                      /\ (i - runStart(i)) <
                            Len(p) * ((runEnd(i) - runStart(i) + 1) \div Len(p))
    IN  KeepChars(s, {i \in 1..Len(s) : ~removed(i)})

Whitespace == {" ", "\n", "\t"}

\* the backtick character (a string of this module cannot hold it: it is
\* written as a tilde, which no message of the model contains otherwise)
Backtick == "~"

\* s.strip(chars)
Strip(s, chars) ==
    LET keep == {i \in 1..Len(s) : SubSeq(s, i, i) \notin chars}
    IN  IF keep = {} THEN ""
        ELSE SubSeq(s, CHOOSE i \in keep : \A k \in keep : i <= k,
                       CHOOSE i \in keep : \A k \in keep : i >= k)

\* s.removeprefix(p)
RemovePrefix(s, p) ==
    IF Len(s) >= Len(p) /\ SubSeq(s, 1, Len(p)) = p THEN SubSeq(s, Len(p) + 1, Len(s)) ELSE s

\* lines 93-95: the text of a message after removal of backticks, of a
\* leading "json" line and of "**"
CleanMessage(msg) ==
    LET a == Strip(RemoveAll(msg, Backtick), Whitespace)
        b == RemovePrefix(Strip(a, {Backtick, " ", "\n"}), "json\n")
    IN  Strip(RemoveAll(b, "**"), Whitespace)

\* Variant of the filter without the test for parentheses.
SkippedShortOnly(c) == Len(c) <= 1

\* lines 97-108: a cleaned message is skipped when it has at most one
\* character or is parenthesised
Skipped(c) ==
    \/ Len(c) <= 1
    \/ SubSeq(c, 1, 1) = "(" /\ SubSeq(c, Len(c), Len(c)) = ")"

\* the ways one workflow.ainvoke of the chat workflow can end
ChatRuns == {"ended_at_orchestrator", "personalize_exhausted", "answered", "answered_fenced",
             "failure_text", "iteration_limit", "failure_second", "splitter_none", "raise"}

\* AgentReplySplitterNode.execute: an empty answer gives the empty list
SplitterList(answer, parsed) == IF answer = "" THEN << >> ELSE parsed

\* the response dict of a run: list_message absent (the run ended at the
\* orchestrator), None (the splitter found no array), or a list; error as
\* written by personalize
ResponseOf(run) ==
    CASE run = "ended_at_orchestrator" ->
           [run |-> run, list |-> "absent", items |-> << >>, error |-> "absent"]
      [] run = "personalize_exhausted" ->
           [run |-> run, list |-> "list",
            items |-> SplitterList(Update("speech_validator", "empty").answer, << >>),
            error |-> Update("personalize", "exhausted").error]
      [] run = "answered" ->
           [run |-> run, list |-> "list",
            items |-> SplitterList("draft", <<"hola, que tal">>), error |-> "None"]
      [] run = "answered_fenced" ->
           [run |-> run, list |-> "list",
            items |-> SplitterList("draft", <<"~~~json\n[hola]~~~", "**a**", "(nota interna)">>),
            error |-> "None"]
      [] run = "failure_text" ->
           [run |-> run, list |-> "list",
            items |-> SplitterList("draft",
                        <<"Lo siento, no pude generar una respuesta en este momento. Intenta luego.">>),
            error |-> "None"]
      [] run = "iteration_limit" ->
           [run |-> run, list |-> "list",
            items |-> SplitterList("draft",
                        <<"Agent stopped due to iteration limit or time limit.", "hola">>),
            error |-> "None"]
      [] run = "failure_second" ->
           [run |-> run, list |-> "list",
            items |-> SplitterList("draft", <<"hola, que tal", "Mensaje enviado al grupo">>),
            error |-> "None"]
      [] run = "splitter_none" ->
           [run |-> run, list |-> "none", items |-> << >>, error |-> "None"]

\* Variant of should_retry that looks for a failure phrase in every message.
ShouldRetryAnyMessage(resp) ==
    /\ resp.list = "list"
    /\ \E i \in 1..Len(resp.items) :
          \E p \in WORKFLOW_FAILURE_MESSAGES : Contains(resp.items[i], p)

\* lines 70-75: should_retry
should_retry(resp) ==
    /\ resp.list = "list"
    /\ resp.items # << >>
    /\ resp.items[1] # ""
    /\ \E p \in WORKFLOW_FAILURE_MESSAGES : Contains(resp.items[1], p)

\* line 82: if attempt < MAX_WORKFLOW_RETRIES - 1
SleepBeforeNext(a) == a < MAX_WORKFLOW_RETRIES - 1

\* lines 56-86, one iteration: workflow.ainvoke, then break, or the pause
\* before the next iteration, or (last iteration) the else branch of the loop
WInvoke(run) ==
    /\ wpc = "invoke"
    /\ wInvocations' = wInvocations + 1
    /\ IF run = "raise"
       THEN /\ wpc' = "raised"
            /\ UNCHANGED <<wResponse, wExhausted, wAttempt, wSleeps>>
       ELSE /\ wResponse' = ResponseOf(run)
            /\ IF ~should_retry(ResponseOf(run))
               THEN /\ wpc' = "deliver"
                    /\ UNCHANGED <<wExhausted, wAttempt, wSleeps>>
               ELSE IF SleepBeforeNext(wAttempt)
               THEN /\ wpc' = "sleep"
                    /\ UNCHANGED <<wExhausted, wAttempt, wSleeps>>
               ELSE /\ wpc' = "deliver"
                    /\ wExhausted' = TRUE
                    /\ UNCHANGED <<wAttempt, wSleeps>>
    /\ UNCHANGED <<wIndex, wPosted>>
    /\ UNCHANGED notChatVars

\* line 83: await asyncio.sleep(RETRY_DELAY_SECONDS), then the next iteration
\* (or, after the last one, the else branch)
WSleep ==
    /\ wpc = "sleep"
    /\ wSleeps' = Append(wSleeps, RETRY_DELAY_SECONDS)
    /\ IF wAttempt + 1 < MAX_WORKFLOW_RETRIES
       THEN /\ wAttempt' = wAttempt + 1
            /\ wpc' = "invoke"
            /\ UNCHANGED wExhausted
       ELSE /\ wpc' = "deliver"
            /\ wExhausted' = TRUE
            /\ UNCHANGED wAttempt
    /\ UNCHANGED <<wInvocations, wResponse, wIndex, wPosted>>
    /\ UNCHANGED notChatVars

\* lines 88-134, one iteration of the delivery loop over
\* response.get("list_message", []): a list_message of None raises TypeError;
\* a skipped message is only logged; any other message is POSTed once, the
\* status is logged, and a transport error leaves the handler
WDeliver(resp) ==
    /\ wpc = "deliver"
    /\ IF wResponse.list = "none"
       THEN /\ wpc' = "raised"
            /\ UNCHANGED <<wIndex, wPosted>>
       ELSE IF wIndex = Len(wResponse.items)
       THEN /\ wpc' = "done"
            /\ UNCHANGED <<wIndex, wPosted>>
       ELSE LET msg == CleanMessage(wResponse.items[wIndex + 1]) IN
            IF Skipped(msg)
            THEN /\ wIndex' = wIndex + 1
                 /\ UNCHANGED <<wpc, wPosted>>
            ELSE IF resp = "raise"
            THEN /\ wpc' = "raised"
                 /\ UNCHANGED <<wIndex, wPosted>>
            ELSE /\ wIndex' = wIndex + 1
                 /\ wPosted' = Append(wPosted,
                                  [message |-> msg,
                                   log |-> IF resp = "200" THEN "sent" ELSE "failed"])
                 /\ UNCHANGED wpc
    /\ UNCHANGED <<wAttempt, wInvocations, wSleeps, wResponse, wExhausted>>
    /\ UNCHANGED notChatVars

\* process_chat_message has been called with a valid request
InitChat ==
    /\ ChatIdle
    /\ ConsumerInit
    /\ BatchIdle
    /\ RetryIdle
    /\ GraphIdle
    /\ ApiIdle
    /\ DeliverIdle
    /\ KafkaIdle
    /\ LoopIdle
    /\ RailsIdle
    /\ OrchIdle
    /\ EndpointIdle

NextChat ==
    \/ \E run \in ChatRuns : WInvoke(run)
    \/ WSleep
    \/ \E resp \in PostResults : WDeliver(resp)

SpecChat == InitChat /\ [][NextChat]_vars

(***************************************************************************)
(* Chat handlers in flight on the event loop.  consume() creates one task  *)
(* per message with asyncio.create_task; all tasks run on the one thread   *)
(* of the event loop, which switches between them only where a task        *)
(* awaits.  Handlers are the tasks inside `async with semaphore`           *)
(* (InFlight <= SEMAPHORE_LIMIT of them).  A task is resumed by the loop   *)
(* when what it awaits is ready; the loop can do that only while its       *)
(* thread is not held by a call that does not return.                      *)
(***************************************************************************)
\* time.sleep(20) (agent_consumer.py:134) is a plain call, not an await: it
\* returns after 20 seconds and keeps the thread of the event loop until
\* then, so the loop runs no other task while a handler is in it
ThreadFree(h) == \A o \in Handlers \ {h} : hpc[o] # "pause"

\* lines 61-86: the awaited workflow.ainvoke completes; the handler sleeps
\* with asyncio.sleep before the next attempt, or goes on to deliver n
\* messages and reaches the await of the first session.post
HInvokeReturn(h, retry, n) ==
    /\ hpc[h] = "invoke"
    /\ ThreadFree(h)
    /\ IF retry /\ SleepBeforeNext(hAttempt[h])
       THEN /\ hpc' = [hpc EXCEPT ![h] = "retry_sleep"]
            /\ UNCHANGED hLen
       ELSE /\ hLen' = [hLen EXCEPT ![h] = n]
            /\ hpc' = [hpc EXCEPT ![h] = IF n = 0 THEN "done" ELSE "post"]
    /\ UNCHANGED <<hAttempt, hIndex>>
    /\ UNCHANGED notLoopVars

\* line 83: await asyncio.sleep(RETRY_DELAY_SECONDS) is over and the loop
\* resumes the handler, which awaits the next workflow.ainvoke
HRetryWake(h) ==
    /\ hpc[h] = "retry_sleep"
    /\ ThreadFree(h)
    /\ hAttempt' = [hAttempt EXCEPT ![h] = @ + 1]
    /\ hpc' = [hpc EXCEPT ![h] = "invoke"]
    /\ UNCHANGED <<hLen, hIndex>>
    /\ UNCHANGED notLoopVars

\* lines 127-134: the response of session.post has arrived; the loop resumes
\* the handler, which logs the status and calls time.sleep(20)
HPostAnswered(h) ==
    /\ hpc[h] = "post"
    /\ ThreadFree(h)
    /\ hpc' = [hpc EXCEPT ![h] = "pause"]
    /\ UNCHANGED <<hAttempt, hLen, hIndex>>
    /\ UNCHANGED notLoopVars

\* line 134: time.sleep(20) returns; the handler goes to the next element of
\* list_message and awaits its session.post, or returns
HPauseEnd(h) ==
    /\ hpc[h] = "pause"
    /\ hIndex' = [hIndex EXCEPT ![h] = @ + 1]
    /\ hpc' = [hpc EXCEPT ![h] = IF hIndex[h] + 1 = hLen[h] THEN "done" ELSE "post"]
    /\ UNCHANGED <<hAttempt, hLen>>
    /\ UNCHANGED notLoopVars

\* the loop resumes handler h at the point where it awaits
HResume(h) ==
    \/ \E retry \in BOOLEAN, n \in 0..MaxChatMessages : HInvokeReturn(h, retry, n)
    \/ HRetryWake(h)
    \/ HPostAnswered(h)

InitLoop ==
    /\ LoopIdle
    /\ ConsumerInit
    /\ BatchIdle
    /\ RetryIdle
    /\ GraphIdle
    /\ ApiIdle
    /\ DeliverIdle
    /\ KafkaIdle
    /\ ChatIdle
    /\ RailsIdle
    /\ OrchIdle
    /\ EndpointIdle

NextLoop ==
    \/ \E h \in Handlers, retry \in BOOLEAN, n \in 0..MaxChatMessages : HInvokeReturn(h, retry, n)
    \/ \E h \in Handlers : HRetryWake(h)
    \/ \E h \in Handlers : HPostAnswered(h)
    \/ \E h \in Handlers : HPauseEnd(h)

SpecLoop == InitLoop /\ [][NextLoop]_vars

(***************************************************************************)
(* GuardrailsManager (services/guardrails_manager.py).  __new__ keeps one  *)
(* instance per process and __init__ returns at once on the later          *)
(* constructions, so base_config and rails_apps_cache are set once.        *)
(* _get_or_create_rails_app has no await: a call runs from its first line  *)
(* to its return without another call in between.  A rule is identified    *)
(* here by the number of its id; the rules of a room have distinct ids.    *)
(***************************************************************************)
\* the values of dynamic_rules: the lists of distinct rules, in every order
RuleLists ==
    {l \in UNION {[1..n -> RuleIds] : n \in 0..MaxRules} :
        \A i, j \in 1..Len(l) : i # j => l[i] # l[j]}

IdSet(rules) == {rules[i] : i \in 1..Len(rules)}

\* Variant of the key without sorted(): the ids in the order of the list.
CacheKeyInListOrder(rules) == [base |-> rules = << >>, ids |-> rules]

\* lines 93-96: cache_key.  rule_ids = sorted(ids); rule_key joins them with
\* "_", or is "base" for no rule; the hash of the base configuration, the
\* same in every call of the process, is left out
cache_key(rules) ==
    [base |-> rules = << >>, ids |-> SortSeq(rules, LAMBDA a, b : a < b)]

\* lines 83-150: one call.  built is whether RailsConfig.from_content and
\* LLMRails(...) return (TRUE) or raise (FALSE) when the call reaches them
_get_or_create_rails_app(rules, built) ==
    LET key == cache_key(rules)
        S == IdSet(rules)
    IN
    /\ gmCalls < MaxRailsCalls
    /\ gmCalls' = gmCalls + 1
    /\ IF base_config = "None"
       THEN /\ gmLast' = [rules |-> rules, outcome |-> "no_config", returned |-> 0]
            /\ UNCHANGED <<rails_apps_cache, gmApps, gmBuilds, gmFailures, gmReturned>>
       ELSE IF key \in DOMAIN rails_apps_cache
       THEN /\ gmLast' = [rules |-> rules, outcome |-> "cached",
                          returned |-> rails_apps_cache[key]]
            /\ gmReturned' = [gmReturned EXCEPT ![S] = @ \cup {rails_apps_cache[key]}]
            /\ UNCHANGED <<rails_apps_cache, gmApps, gmBuilds, gmFailures>>
       ELSE IF built
       THEN LET app == gmApps + 1 IN
            /\ gmApps' = app
            /\ rails_apps_cache' = (key :> app) @@ rails_apps_cache
            /\ gmBuilds' = [gmBuilds EXCEPT ![S] = @ + 1]
            /\ gmReturned' = [gmReturned EXCEPT ![S] = @ \cup {app}]
            /\ gmLast' = [rules |-> rules, outcome |-> "built", returned |-> app]
            /\ UNCHANGED gmFailures
       ELSE /\ gmFailures' = [gmFailures EXCEPT ![S] = @ + 1]
            /\ gmLast' = [rules |-> rules, outcome |-> "failed", returned |-> 0]
            /\ UNCHANGED <<rails_apps_cache, gmApps, gmBuilds, gmReturned>>
    /\ UNCHANGED base_config
    /\ UNCHANGED notRailsVars

\* lines 20-47: the first GuardrailsManager() of the process has run;
\* _load_base_config returned the three texts, or None (missing directory or
\* config.yml, or a read error)
InitRails ==
    /\ base_config \in {"loaded", "None"}
    /\ rails_apps_cache = << >>
    /\ gmCalls = 0
    /\ gmApps = 0
    /\ gmBuilds = [S \in SUBSET RuleIds |-> 0]
    /\ gmFailures = [S \in SUBSET RuleIds |-> 0]
    /\ gmReturned = [S \in SUBSET RuleIds |-> {}]
    /\ gmLast = NoCall
    /\ ConsumerInit
    /\ BatchIdle
    /\ RetryIdle
    /\ GraphIdle
    /\ ApiIdle
    /\ DeliverIdle
    /\ KafkaIdle
    /\ ChatIdle
    /\ LoopIdle
    /\ OrchIdle
    /\ EndpointIdle

NextRails ==
    \E rules \in RuleLists, built \in BOOLEAN : _get_or_create_rails_app(rules, built)

SpecRails == InitRails /\ [][NextRails]_vars

(***************************************************************************)
(* OrchestrationNode.execute (nodes/orchestractor.py): the statements      *)
(* before the loop, then up to max_retries attempts to get from the model  *)
(* the id of an agent of the room.                                         *)
(***************************************************************************)
\* ids of the agents of the room (group_context.agents), as stored
AgentIds == {"a1", "B2"}

\* ids the model may name in its JSON answer
ModelIds == {"a1", "A1", "B2", "zz"}

\* json_response.get("id", "").lower().strip()
LowerStrip(id) ==
    CASE id = "A1" -> "a1"
      [] id = "B2" -> "b2"
      [] OTHER -> id

\* line 83: valid_agent_ids
valid_agent_ids == AgentIds

\* personalize_agent.py:48-52: the agents of the room whose id equals
\* personalize_agent["id"]; element [0] of an empty list raises IndexError
agent_to_execute(id) == {a \in AgentIds : a = id}

\* what one call of llm_manager.ainvoke gives: "end" (a text holding
\* '__end__'), "object" (a JSON object, fenced or plain, naming id),
\* "not_json" (both json.loads fail with JSONDecodeError), "not_object"
\* (JSON that is no object: .get raises), "raise" (the call raises)
Decisions ==
    {[kind |-> k, id |-> ""] : k \in {"end", "not_json", "not_object", "raise"}}
    \cup {[kind |-> "object", id |-> i] : i \in ModelIds}

\* lines 32-81: the statements before the loop.  No summary: the node returns
\* {"decision": "junior"}.  Otherwise group_context.agents is read: with
\* room_details None the AttributeError leaves execute; compile_prompt, which
\* fetches the prompt, may raise as well (prompt_ok FALSE)
OBegin(prompt_ok) ==
    /\ opc = "begin"
    /\ IF oSummary = ""
       THEN /\ opc' = "returned"
            /\ oResult' = NoUpdate
       ELSE IF oRoom = "None" \/ ~prompt_ok
       THEN /\ opc' = "raised"
            /\ UNCHANGED oResult
       ELSE /\ opc' = "loop"
            /\ UNCHANGED oResult
    /\ UNCHANGED <<oSummary, oRoom, oAttempt, oCalls, oLog>>
    /\ UNCHANGED notOrchVars

\* lines 86-122, one iteration of `for attempt in range(max_retries)`; after
\* the last one, lines 124-125
OAttempt(d) ==
    /\ opc = "loop"
    /\ oCalls' = oCalls + 1
    /\ LET agent_id == LowerStrip(d.id)
           selected == d.kind = "object" /\ agent_id \in valid_agent_ids
           how == IF d.kind # "object" THEN d.kind
                  ELSE IF selected THEN "selected" ELSE "invalid_id"
       IN
       /\ oLog' = Append(oLog, how)
       /\ IF d.kind = "end"
          THEN /\ opc' = "returned"
               /\ oResult' = [next_node |-> "__end__", id |-> "unset", agent_id_executed |-> ""]
               /\ UNCHANGED oAttempt
          ELSE IF selected
          THEN /\ opc' = "returned"
               /\ oResult' = [next_node |-> "personalize", id |-> agent_id,
                              agent_id_executed |-> agent_id]
               /\ UNCHANGED oAttempt
          ELSE IF oAttempt + 1 < max_retries
          THEN /\ oAttempt' = oAttempt + 1
               /\ UNCHANGED <<opc, oResult>>
          ELSE /\ opc' = "returned"
               /\ oResult' = [next_node |-> "__end__", id |-> "unset", agent_id_executed |-> ""]
               /\ UNCHANGED oAttempt
    /\ UNCHANGED <<oSummary, oRoom>>
    /\ UNCHANGED notOrchVars

\* the orchestrator is scheduled after slang_analysis: summarize_content has
\* written a summary or "", get_room_info the room or None
InitOrch ==
    /\ opc = "begin"
    /\ oSummary \in {"summary", ""}
    /\ oRoom \in {"room", "None"}
    /\ oAttempt = 0
    /\ oCalls = 0
    /\ oLog = << >>
    /\ oResult = NoUpdate
    /\ ConsumerInit
    /\ BatchIdle
    /\ RetryIdle
    /\ GraphIdle
    /\ ApiIdle
    /\ DeliverIdle
    /\ KafkaIdle
    /\ ChatIdle
    /\ LoopIdle
    /\ RailsIdle
    /\ EndpointIdle

NextOrch ==
    \/ \E prompt_ok \in BOOLEAN : OBegin(prompt_ok)
    \/ \E d \in Decisions : OAttempt(d)

SpecOrch == InitOrch /\ [][NextOrch]_vars

(***************************************************************************)
(* The endpoints that publish to Kafka (controllers/agent.py):             *)
(* invoke_chat_workflow (POST /chat) and generate_room_suggestions (POST   *)
(* /generate-room-suggestion).  Both have the same body: a producer is     *)
(* created, started, used for one send_and_wait and stopped, all inside    *)
(* one try whose except clause raises HTTPException(500).  Requests are    *)
(* handled concurrently and interleave where they await.                   *)
(***************************************************************************)
KafkaEndpoints == {"chat", "room_suggestion"}

\* lines 32-37 / 156-161: the request arrives, the message is built and
\* AIOKafkaProducer(...) is constructed
QBegin(r, e) ==
    /\ qpc[r] = "new"
    /\ qEndpoint[r] = "none"
    /\ qEndpoint' = [qEndpoint EXCEPT ![r] = e]
    /\ qProducer' = [qProducer EXCEPT ![r] = "created"]
    /\ qpc' = [qpc EXCEPT ![r] = "start"]
    /\ UNCHANGED notEndpointVars

\* lines 38 / 162: await producer.start(); when it raises (the broker cannot
\* be reached) the except clause answers with status 500
QStart(r, ok) ==
    /\ qpc[r] = "start"
    /\ IF ok
       THEN /\ qProducer' = [qProducer EXCEPT ![r] = "started"]
            /\ qpc' = [qpc EXCEPT ![r] = "send"]
       ELSE /\ qpc' = [qpc EXCEPT ![r] = "http_500"]
            /\ UNCHANGED qProducer
    /\ UNCHANGED qEndpoint
    /\ UNCHANGED notEndpointVars

\* lines 39-42 / 163-166: await producer.send_and_wait(...); when it raises,
\* control goes to the except clause (51-52 / 174-176), which raises
\* HTTPException and does nothing else
QSend(r, ok) ==
    /\ qpc[r] = "send"
    /\ qpc' = [qpc EXCEPT ![r] = IF ok THEN "stop" ELSE "http_500"]
    /\ UNCHANGED <<qEndpoint, qProducer>>
    /\ UNCHANGED notEndpointVars

\* lines 43-49 / 167-173: await producer.stop(), then the answer is returned
QStop(r) ==
    /\ qpc[r] = "stop"
    /\ qProducer' = [qProducer EXCEPT ![r] = "stopped"]
    /\ qpc' = [qpc EXCEPT ![r] = "returned"]
    /\ UNCHANGED qEndpoint
    /\ UNCHANGED notEndpointVars

InitEndpoint ==
    /\ ConsumerInit
    /\ BatchIdle
    /\ RetryIdle
    /\ GraphIdle
    /\ ApiIdle
    /\ DeliverIdle
    /\ KafkaIdle
    /\ ChatIdle
    /\ LoopIdle
    /\ RailsIdle
    /\ OrchIdle
    /\ EndpointIdle

NextEndpoint ==
    \/ \E r \in Requests, e \in KafkaEndpoints : QBegin(r, e)
    \/ \E r \in Requests, ok \in BOOLEAN : QStart(r, ok)
    \/ \E r \in Requests, ok \in BOOLEAN : QSend(r, ok)
    \/ \E r \in Requests : QStop(r)

SpecEndpoint == InitEndpoint /\ [][NextEndpoint]_vars

(***************************************************************************)
(* Specification of the consumer worker                                    *)
(***************************************************************************)
Init ==
    /\ ConsumerInit
    /\ BatchIdle
    /\ RetryIdle
    /\ GraphIdle
    /\ ApiIdle
    /\ DeliverIdle
    /\ KafkaIdle
    /\ ChatIdle
    /\ LoopIdle
    /\ RailsIdle
    /\ OrchIdle
    /\ EndpointIdle

Next ==
    \/ Receive
    \/ \E t \in MsgIds : Acquire(t)
    \/ \E t \in MsgIds, raised \in BOOLEAN : Finish(t, raised)
    \/ BeginShutdown
    \/ StopConsumer
    \/ StopProducer
    \/ Gather

Spec == Init /\ [][Next]_vars

\* MaxMsgs messages were available at once: consume() has created a handler
\* task for each of them before any of the tasks got to run
InitBurst ==
    /\ cpc = "consuming"
    /\ received = MaxMsgs
    /\ tasks = MsgIds
    /\ inside = {}
    /\ semaphore = SEMAPHORE_LIMIT
    /\ consumerUp = TRUE
    /\ producerUp = TRUE
    /\ lastExit = "none"
    /\ waited = {}
    /\ BatchIdle
    /\ RetryIdle
    /\ GraphIdle
    /\ ApiIdle
    /\ DeliverIdle
    /\ KafkaIdle
    /\ ChatIdle
    /\ LoopIdle
    /\ RailsIdle
    /\ OrchIdle
    /\ EndpointIdle

NextBurst ==
    \/ \E t \in MsgIds : Acquire(t)
    \/ \E t \in MsgIds, raised \in BOOLEAN : Finish(t, raised)
    \/ BeginShutdown
    \/ StopConsumer
    \/ StopProducer
    \/ Gather

\* Scheduling of the event loop: a handler task that can enter the semaphore
\* section is run, and handler bodies that are running terminate.
Fairness ==
    /\ WF_vars(\E t \in MsgIds : Acquire(t))
    /\ WF_vars(\E t \in MsgIds, raised \in BOOLEAN : Finish(t, raised))

SpecFair == InitBurst /\ [][NextBurst]_vars /\ Fairness

\* C1: at every moment at most SEMAPHORE_LIMIT handlers execute inside the
\* semaphore-guarded section of process_message, and every permit not held by
\* an executing handler is available again: a handler that finished, by
\* returning or by raising, has given its permit back.
C1_SemaphoreCap ==
    /\ Cardinality(inside) <= SEMAPHORE_LIMIT
    /\ semaphore = SEMAPHORE_LIMIT - Cardinality(inside)

\* witness of C1: all permits are taken, a further handler waits, and an
\* earlier handler has already finished by raising
C1_Witness ==
    /\ Cardinality(inside) = SEMAPHORE_LIMIT
    /\ tasks \ inside # {}
    /\ lastExit = "raised"

\* C2 (as claimed): the Kafka consumer and producer are stopped only after
\* every task still in `tasks` has finished.
C2_DrainBeforeRelease ==
    (~consumerUp \/ ~producerUp) => tasks = {}

\* C3 (as claimed): a handled room-suggestion message with is_last = true
\* has issued exactly one webhook POST when its handler ends, whatever the
\* outcome of the single-room and of the final analysis workflow.
C3_LastMessageOnePost ==
    \A m \in Units :
        (is_last(m) /\ bpc[m] \in {"done", "failed"}) => posts[m] = 1

\* C4 (as claimed): the handler of a message with is_last = false never
\* issues a webhook POST.
C4_NonLastNoPost ==
    \A m \in Units : ~is_last(m) => posts[m] = 0

\* C5 (as claimed): when the final analysis of the is_last message reads the
\* table, the results of all other messages of the batch are stored in it.
C5_FinalSeesAllUnits ==
    \A m \in Units :
        (is_last(m) /\ finalRead[m].ran) => (Units \ {m}) \subseteq finalRead[m].rows

\* C6 (as claimed): an execution of the retrying node in which no output
\* was valid has made exactly MAX_ATTEMPTS calls of the compute function
\* when it returns the default answer.
C6_ExactlyMaxAttemptsCalls ==
    rReturn = "exhausted" => toolCalls + directCalls = MAX_ATTEMPTS

\* C6 (amended): an execution in which no output was valid makes exactly
\* MAX_ATTEMPTS attempts; every attempt calls llm_manager.ainvoke once, and
\* calls agent_executor.ainvoke once before it when an executor exists
\* (MAX_ATTEMPTS or 2 * MAX_ATTEMPTS calls in all); then the default answer
\* "" is returned.
C6_AttemptsAndCalls ==
    rReturn = "exhausted" =>
        /\ attempt = MAX_ATTEMPTS
        /\ directCalls = MAX_ATTEMPTS
        /\ toolCalls = (IF agent_executor THEN MAX_ATTEMPTS ELSE 0)
        /\ result.answer = ""

\* witness of C6: the loop was exhausted with a tool agent in use
C6_Witness ==
    /\ rReturn = "exhausted"
    /\ agent_executor
    /\ toolCalls + directCalls = 2 * MAX_ATTEMPTS

\* C7 (as claimed): when all attempts failed, execute returns (does not
\* raise) the default answer "" and the error field of the returned update
\* carries the last attempt's error.
C7_ExhaustedReturnsLastError ==
    rReturn = "exhausted" =>
        /\ rpc = "returned"
        /\ result.answer = ""
        /\ last_error # "None"
        /\ result.error = last_error

\* C8: a node with several unconditional predecessor edges starts only
\* after all of them have completed: slang_analysis after summarize_content
\* and get_room_info, generate_room_suggestion after get_room_info and the
\* five extraction/analysis nodes fed from START.
C8_JoinWaitsForAll ==
    /\ (gWorkflow = "chat" /\ "slang_analysis" \in gStarted \cup completed)
          => {"summarize_content", "get_room_info"} \subseteq completed
    /\ (gWorkflow = "room_suggestions" /\ "generate_room_suggestion" \in gStarted \cup completed)
          => ({"get_room_info", "analyze_main_topic"} \cup ExtractNodes) \subseteq completed
    /\ \A n \in NodesOf(gWorkflow) :
          (Cardinality(Preds(gWorkflow, n)) >= 2 /\ n \in gStarted \cup completed)
              => (Preds(gWorkflow, n) \ {"START"}) \subseteq completed

\* witness of C8: generate_room_suggestion has started (after its six
\* predecessors)
C8_Witness ==
    /\ gWorkflow = "room_suggestions"
    /\ "generate_room_suggestion" \in gStarted
    /\ Cardinality(completed) = 6

C10_RunSurvivesRoomInfoFailure ==
    (gWorkflow = "chat" /\ "get_room_info" \in completed /\ gNext.room_details = "None")
        => ~(gStatus = "raised"
             /\ gRaised.node \in {"slang_analysis", "orchestrator", "personalize", "validator",
                                  "speech_validator", "agent_reply_splitter"})

\* C11 (as claimed): every request sent to the broker by POST /chat has its
\* correlation id in pending_responses at the time it is sent.
C11_RegisteredBeforeSend ==
    \A i \in 1..Len(calls) :
        calls[i].result = "message_sent" => calls[i].registered

\* C12: a message of the response topic whose uui_id is in pending_responses
\* resolves that entry's future with the payload and removes the entry; any
\* other message (missing, unknown or already resolved id, undecodable
\* value) leaves the map and the futures unchanged; the listener keeps
\* running in both cases.
C12_ListenerResolvesAndRemoves ==
    [][lReceived' # lReceived =>
         /\ listenerUp'
         /\ IF lastMsg'.kind = "object" /\ lastMsg'.uui_id \in DOMAIN pending_responses
            THEN /\ lastMsg'.uui_id \notin DOMAIN pending_responses'
                 /\ futures'[pending_responses[lastMsg'.uui_id]] = lastMsg'.payload
                 /\ \A k \in DOMAIN pending_responses \ {lastMsg'.uui_id} :
                       /\ k \in DOMAIN pending_responses'
                       /\ pending_responses'[k] = pending_responses[k]
                       /\ futures'[pending_responses[k]] = futures[pending_responses[k]]
            ELSE /\ pending_responses' = pending_responses
                 /\ futures' = futures]_vars

\* witness of C12: a future was resolved with the first response and its
\* entry removed; a second response with the same id was then discarded
C12_Witness ==
    /\ lReceived = 2
    /\ lastMsg.kind = "object"
    /\ lastMsg.payload = Payload(2)
    /\ lastMsg.uui_id \in resolved
    /\ lastMsg.uui_id \notin DOMAIN pending_responses
    /\ \E f \in DOMAIN futures : futures[f] = Payload(1)
    /\ \A f \in DOMAIN futures : futures[f] # Payload(2)

\* C13 (as claimed): a call of POST /chat for which no matching response has
\* arrived does not end normally: it ends with a TimeoutError (or with the
\* producer's failure).
C13_UnansweredCallTimesOut ==
    \A i \in 1..Len(calls) :
        calls[i].result = "message_sent" => calls[i].answered

\* C14 (as claimed): two requests published without a caller-supplied uuid
\* get different correlation ids.
C14_DistinctCorrelationIds ==
    \A i, j \in 1..Len(calls) :
        (i # j /\ calls[i].supplied = NoUuid /\ calls[j].supplied = NoUuid)
            => calls[i].uuid # calls[j].uuid

\* C15: an exception raised while decoding or handling a message ends that
\* message's handler only: the consume loop stays where it is, the consumer
\* stays started, and the loop goes on receiving the following messages.
C15_HandlerFailureStaysInTask ==
    [][(lastExit' = "raised" /\ inside' # inside /\ Cardinality(inside') < Cardinality(inside))
          => /\ cpc' = cpc
             /\ consumerUp' = consumerUp
             /\ received' = received]_vars

\* witness of C15: the handlers of the first two messages have ended, the
\* latest by raising, and the loop has received and dispatched a third one
C15_Witness ==
    /\ lastExit = "raised"
    /\ cpc = "consuming"
    /\ consumerUp
    /\ received = 3
    /\ tasks = {3}
    /\ inside = {3}

\* C16: every received message's handler eventually acquires a permit, runs
\* and completes, also when more messages are in flight than there are
\* permits (given that every handler body terminates).
C16_EveryMessageCompletes ==
    (tasks = MsgIds /\ inside = {}) ~> (received = MaxMsgs /\ tasks = {} /\ inside = {})

\* witness of C16: the handlers that had to wait because all permits were
\* taken have completed, and so have all others
C16_Witness ==
    /\ waited # {}
    /\ received > SEMAPHORE_LIMIT
    /\ tasks = {}

\* C20: the retrying node sleeps only between attempts: the delays are 0.6 s,
\* 1.2 s, 2.4 s (each the double of the previous one, starting at
\* INITIAL_BACKOFF_SEC); an exhausted execution has slept exactly
\* MAX_ATTEMPTS - 1 = 3 times and there is no sleep after the final attempt.
C20_BackoffSchedule ==
    /\ Len(sleeps) = attempt - 1
    /\ Len(sleeps) <= MAX_ATTEMPTS - 1
    /\ \A i \in 1..Len(sleeps) :
          sleeps[i] = IF i = 1 THEN INITIAL_BACKOFF_TENTHS ELSE 2 * sleeps[i - 1]
    /\ rReturn = "exhausted" => sleeps = <<6, 12, 24>>
    /\ rpc = "backoff" => attempt < MAX_ATTEMPTS

\* witness of C20: an execution that used up its attempts after three sleeps
C20_Witness ==
    /\ rReturn = "exhausted"
    /\ attempt = MAX_ATTEMPTS
    /\ Len(sleeps) = 3
    /\ sleeps[3] = 24

\* C17 (as claimed): handling a second delivery of the same request message
\* issues no further webhook POST: the POSTs counted for the request after
\* the replay are those of its first handling.
C17_ReplayAddsNoPost ==
    /\ chatHandled >= 2 => chatPosts = chatPostsFirst
    /\ \A b \in Batches, r \in Units :
          unitHandled[b][r] >= 2 => unitPosts[b][r] = unitPostsFirst[b][r]

\* C19 (as claimed): the final analysis of a batch reads only rows written
\* by units of that batch, and no unit of another batch replaces a row of
\* this batch.
C19_BatchIsolation ==
    /\ \A row \in synthesis.rows : row[2] = synthesis.batch
    /\ overwritten = {}

\* C18 (as claimed): no received message is lost: while the worker runs,
\* every message below the consumer's position (one that will not be
\* delivered again) has a handler that completed or is still running.
C18_NoReceivedMessageLost ==
    kUp => \A o \in 0..(kPosition - 1) : o \in kDone \cup kRunning

\* C21: a model call of the retrying node succeeds only when it returned
\* without raising and its parsed output is non-empty, has at least
\* MIN_ACCEPTED_LEN characters and is not a "sin sugerencias" sentinel; the
\* node then returns that output at once, with no further attempt or sleep;
\* any other outcome of a call is never returned as a valid answer.
C21_ReturnsFirstValidOutput ==
    /\ [](rReturn = "valid" =>
            /\ result.answer = lastOut
            /\ result.answer \notin {"raise", "", "Sin Sugerencias", "(sin sugerencias)"}
            /\ Len(result.answer) >= MIN_ACCEPTED_LEN
            /\ Len(sleeps) = attempt - 1)
    /\ [][(toolCalls' # toolCalls \/ directCalls' # directCalls) =>
            IF /\ lastOut' \notin {"raise", "", "Sin Sugerencias", "(sin sugerencias)"}
               /\ Len(lastOut') >= MIN_ACCEPTED_LEN
            THEN /\ rpc' = "returned"
                 /\ rReturn' = "valid"
                 /\ result'.answer = lastOut'
                 /\ sleeps' = sleeps
                 /\ attempt' = attempt
            ELSE rReturn' # "valid"]_vars
    /\ [][rpc = "returned" => UNCHANGED retryVars]_vars

\* witness of C21: the first attempt failed, the second one produced a valid
\* output, which was returned after a single sleep
C21_Witness ==
    /\ rReturn = "valid"
    /\ attempt = 2
    /\ Len(sleeps) = 1
    /\ result.answer = "claro, hablemos"

\* fields written by the completed execution of node p
C22_WrittenBy(p) == DOMAIN Update(p, gOutcome[p])

\* C22: the nodes started from the entry write pairwise disjoint fields, and
\* the state their join node (slang_analysis in the chat workflow,
\* generate_room_suggestion in the room-suggestion workflow) reads is
\* determined by what each of them returned alone: every field holds the
\* value written by the one predecessor that writes it, every other field
\* its initial value, whatever the order in which the predecessors completed.
C22_JoinStateOrderFree ==
    \A j \in {"slang_analysis", "generate_room_suggestion"} :
        (j \in NodesOf(gWorkflow) /\ j \in gStarted \ gFinished) =>
            LET preds == Preds(gWorkflow, j) IN
            /\ \A p, q \in preds : p # q => C22_WrittenBy(p) \cap C22_WrittenBy(q) = {}
            /\ \A f \in DOMAIN gState :
                  gState[f] =
                     IF \E p \in preds : f \in C22_WrittenBy(p)
                     THEN LET w == CHOOSE p \in preds : f \in C22_WrittenBy(p)
                          IN  Update(w, gOutcome[w])[f]
                     ELSE UnsetState[f]

\* slang_analysis has started after get_room_info completed before
\* summarize_content, and both values are in the state it reads
C22_Witness ==
    /\ gWorkflow = "chat"
    /\ "slang_analysis" \in gStarted \ gFinished
    /\ gOrder = <<"get_room_info", "summarize_content">>
    /\ gState.room_details = "room"
    /\ gState.conversation_summary = "summary"

\* C23: when orchestrator or personalize has returned, the value its
\* selector returns is a key of the path map declared for that edge
\* ("personalize" / "__end__" after orchestrator, "personalize" /
\* "validator" after personalize), so the run is never aborted by the
\* destination lookup; and a superstep ending with a selector value outside
\* the path map ends the run with an error, scheduling nothing.
C23_SelectorReturnsDeclaredKey ==
    /\ [](\A n \in BranchNodes(gWorkflow) :
            (gStatus = "running" /\ n \in gActive /\ n \in gFinished)
                => Selected(n, gNext) \in PathKeys(n))
    /\ [](gRaised.kind # "key_error")
    /\ [][(gStatus = "running" /\ gState' # gState
             /\ UnmappedBranches(gWorkflow, gActive, gNext) # {})
           => (gStatus' = "raised" /\ gActive' = gActive)]_vars

\* the orchestrator wrote no next_node (it returned {"decision": "junior"}),
\* its selector returned the sentinel and the run ended without an error
C23_Witness ==
    /\ gWorkflow = "chat"
    /\ gStatus = "done"
    /\ gActive = {"orchestrator"}
    /\ gOutcome["orchestrator"] = "decision_junior"
    /\ gState.next_node = "unset"
    /\ determine_next_node(gState) = "__end__"

\* C24 (as claimed): answer is an appending field: once personalize and then
\* speech_validator have written it, the answer the next node reads is the
\* concatenation of the two writes in the order the nodes completed.
C24_AnswerAppended ==
    (/\ gWorkflow = "chat"
     /\ "speech_validator" \in completed
     /\ "agent_reply_splitter" \in gActive)
        => gState.answer =
              Update("personalize", gOutcome["personalize"]).answer
                 \o Update("speech_validator", gOutcome["speech_validator"]).answer

\* C25 (as claimed): the workflow has an entry node, and from every node
\* added to it the sentinel END is reachable along its unconditional and
\* conditional edges.
C25_EndReachableFromEveryNode ==
    /\ \E e \in Edges(gWorkflow) : e[1] = "START"
    /\ \A n \in AddedNodes(gWorkflow) : "END" \in ReachableFrom(gWorkflow, {n})

C27_WebhookPostedOnce ==
    /\ [][\A m \in Units :
            posts'[m] # posts[m] =>
               /\ posts'[m] = posts[m] + 1
               /\ \A k \in Units \ {m} : posts'[k] = posts[k]
               /\ db' = db /\ finalRead' = finalRead]_vars
    /\ [][\A m \in Units :
            webhookLog'[m] # webhookLog[m] =>
               /\ posts'[m] = posts[m] + 1
               /\ bpc'[m] = IF bpc[m] = "error_webhook" THEN "final" ELSE "done"]_vars
    /\ [](\A m \in Units : Len(webhookLog[m]) <= posts[m] /\ posts[m] <= 3)

\* the POST of the final payload of the batch was answered with a non-200
\* status: it was logged, the handler is done after this single POST, and
\* the rows stored by the units are still there
C27_Witness ==
    /\ webhookLog[BatchSize] = <<"failed">>
    /\ posts[BatchSize] = 1
    /\ lastPayload[BatchSize] = "final"
    /\ bpc[BatchSize] = "done"
    /\ db = Units

\* the first element of list_message carries one of the failure phrases
C30_FirstMessageFailed(resp) ==
    /\ resp.list = "list"
    /\ Len(resp.items) >= 1
    /\ \E p \in WORKFLOW_FAILURE_MESSAGES : Contains(resp.items[1], p)

\* a step in which workflow.ainvoke was called and returned a response
C30_Answered == wInvocations' # wInvocations /\ wpc' # "raised"

\* the loop was left by break / by exhaustion, and the delivery loop is next
C30_DeliversAfterSuccess == wpc' = "deliver" /\ wExhausted' = FALSE

C30_DeliversAfterLastFailure == wpc' = "deliver" /\ wExhausted' = TRUE /\ wIndex' = 0

\* no invocation, no pause, and the response to deliver stays the last one
C30_NoFurtherAttempt ==
    wInvocations' = wInvocations /\ wSleeps' = wSleeps /\ wResponse' = wResponse

\* C30: process_chat_message invokes the chat workflow at most
\* MAX_WORKFLOW_RETRIES = 3 times; an invocation after the first one happens
\* only when the first message of the previous response carries a failure
\* phrase; each pause lasts RETRY_DELAY_SECONDS and there is one pause
\* between two consecutive invocations and none after the last; the first
\* response without a failure phrase in its first message ends the attempts;
\* and after a third failing response the handler goes on to deliver that
\* response.
C30_WorkflowRetries ==
    /\ [](wInvocations <= MAX_WORKFLOW_RETRIES)
    /\ [][(wInvocations' # wInvocations /\ wInvocations >= 1) => C30_FirstMessageFailed(wResponse)]_vars
    /\ [](\A i \in 1..Len(wSleeps) : wSleeps[i] = RETRY_DELAY_SECONDS)
    /\ [](Len(wSleeps) <= MAX_WORKFLOW_RETRIES - 1)
    /\ [](wpc = "invoke" => Len(wSleeps) = wInvocations)
    /\ [](wpc \in {"deliver", "done"} => Len(wSleeps) = wInvocations - 1)
    /\ [][(C30_Answered /\ ~C30_FirstMessageFailed(wResponse')) => C30_DeliversAfterSuccess]_vars
    /\ [][(C30_Answered /\ wInvocations' = MAX_WORKFLOW_RETRIES /\ C30_FirstMessageFailed(wResponse')) => C30_DeliversAfterLastFailure]_vars
    /\ [][(wpc \in {"deliver", "done", "raised"}) => C30_NoFurtherAttempt]_vars
    /\ [](wpc = "done" =>
             \A i \in 1..Len(wResponse.items) :
                 ~Skipped(CleanMessage(wResponse.items[i]))
                    => \E j \in 1..Len(wPosted) :
                          wPosted[j].message = CleanMessage(wResponse.items[i]))

\* three invocations answered with a failure phrase, two pauses, and the
\* last response delivered to the backend
C30_Witness ==
    /\ wpc = "done"
    /\ wInvocations = 3
    /\ wSleeps = <<RETRY_DELAY_SECONDS, RETRY_DELAY_SECONDS>>
    /\ wExhausted
    /\ wResponse.run = "iteration_limit"
    /\ Len(wPosted) = 2

\* C28 (as claimed): when the chat run handled last had its personalize node
\* exhaust all attempts, the handler has delivered a response to the backend
\* by the time it is done, and the response carries a populated error field.
C28_ExhaustedRunDelivered ==
    (wpc = "done" /\ wResponse.run = "personalize_exhausted")
        => (Len(wPosted) >= 1 /\ wResponse.error \notin {"None", "absent"})

\* the step in which the single-room workflow of unit m returns after the
\* insert of its row failed
C29_StoreFailed(m) ==
    singleResult'[m] # singleResult[m] /\ singleResult'[m].log = "store_failed"

\* what C29 requires of that step: the suggestion is returned with no error,
\* the handler goes on as after a successful insert (it is done, or, for the
\* last unit, runs the final analysis), no webhook is posted for the failure,
\* and no other unit's handler is affected
C29_GoesOn(m) ==
    /\ singleResult'[m].room_suggestion = "suggestion"
    /\ singleResult'[m].error = "None"
    /\ bpc'[m] = IF is_last(m) THEN "final" ELSE "done"
    /\ posts' = posts
    /\ \A k \in Units \ {m} : bpc'[k] = bpc[k]

\* C29: a failed insert of a unit's row is logged and nothing else: the node
\* returns the computed suggestion with error None, the unit's handler
\* completes as after a successful insert, and the handlers of the other
\* units are not affected.
C29_PersistFailureNotBlocking ==
    [][\A m \in Units : C29_StoreFailed(m) => C29_GoesOn(m)]_vars

\* the insert of unit 1 failed and its handler is done; the last unit was
\* processed after it, stored its row, and the batch's final payload was sent
C29_Witness ==
    /\ singleResult[1].log = "store_failed"
    /\ singleResult[1].error = "None"
    /\ bpc[1] = "done"
    /\ bpc[BatchSize] = "done"
    /\ singleResult[BatchSize].log = "stored"
    /\ lastPayload[BatchSize] = "final"

\* what a handler awaits when it is suspended: the workflow, the pause
\* between two attempts, or the answer of the webhook
C31_Suspended(o) == hpc[o] \in {"invoke", "retry_sleep", "post"}

\* C31: while one chat handler pauses after a webhook delivery, every other
\* handler in flight that is suspended at an await can still be resumed: the
\* pause suspends only the handler that makes it.
C31_PauseSuspendsOnlyItsHandler ==
    \A h \in Handlers :
        hpc[h] = "pause" =>
            \A o \in Handlers \ {h} : C31_Suspended(o) => ENABLED HResume(o)

\* the latest call found no app cached for its rules and built none
C32_LastFailed == gmLast.outcome = "failed"

\* a call that finds the configuration loaded and no app cached for its key
\* constructs one (or fails again)
C32_TriesAgain ==
    (gmCalls' = gmCalls + 1 /\ base_config = "loaded"
     /\ cache_key(gmLast'.rules) \notin DOMAIN rails_apps_cache)
        => gmLast'.outcome \in {"built", "failed"}

\* what holds of the cache after every call
C32_OneAppPerRuleSet ==
    /\ \A S \in SUBSET RuleIds : gmBuilds[S] <= 1 /\ Cardinality(gmReturned[S]) <= 1
    /\ gmLast.outcome = "cached" => gmBuilds[IdSet(gmLast.rules)] = 1
    /\ C32_LastFailed => cache_key(gmLast.rules) \notin DOMAIN rails_apps_cache

\* C32: GuardrailsManager keeps at most one rails app per rule set: the calls
\* of _get_or_create_rails_app with the same set of rule ids, in any order,
\* construct the app once and return that one object afterwards; a
\* construction that fails is not cached, and the next call constructs again.
C32_RailsAppCachedPerRuleSet == [](C32_OneAppPerRuleSet) /\ [][C32_TriesAgain]_vars

\* C32 witness: for a set of two rules a construction failed, a later call
\* built the app, and the latest call, with the rules in descending order of
\* id, got the cached object.
C32_Witness ==
    /\ gmLast.outcome = "cached"
    /\ Len(gmLast.rules) = 2
    /\ gmLast.rules[1] > gmLast.rules[2]
    /\ gmFailures[IdSet(gmLast.rules)] >= 1
    /\ gmBuilds[IdSet(gmLast.rules)] = 1
    /\ gmReturned[IdSet(gmLast.rules)] = {gmLast.returned}

\* the listener takes a message that names a pending future
C33_Correlatable ==
    /\ lReceived' = lReceived + 1
    /\ lastMsg'.kind = "object"
    /\ lastMsg'.uui_id \in DOMAIN pending_responses
    /\ futures[pending_responses[lastMsg'.uui_id]] = 0

\* after an error, a message that names a pending future resolves it
C33_CorrelatesAfterError ==
    (lErrors >= 1 /\ C33_Correlatable) =>
        /\ futures'[pending_responses[lastMsg'.uui_id]] = lastMsg'.payload
        /\ lastMsg'.uui_id \in resolved'

\* C33: an exception while one response message is processed (a value that
\* is not JSON, a payload that is not an object or has no uui_id) does not
\* end the response listener: it is logged, the loop keeps reading the topic
\* and every later message is correlated as usual.
C33_ListenerSurvivesBadMessage ==
    /\ [](lErrors >= 1 => listenerUp)
    /\ [](lastMsg.kind \in {"not_object", "not_json"} => lErrors >= 1)
    /\ [][C33_CorrelatesAfterError]_vars

\* C33 witness: the processing of a message raised, and the message after it
\* resolved the pending future it named.
C33_Witness ==
    /\ lErrors >= 1
    /\ listenerUp
    /\ lastMsg.kind = "object"
    /\ lastMsg.payload = Payload(lReceived)
    /\ lastMsg.uui_id \in resolved
    /\ \E f \in DOMAIN futures : futures[f] = lastMsg.payload

\* number of completed executions of personalize in the run
C34_PersonalizeRuns == Cardinality({i \in 1..Len(gOrder) : gOrder[i] = "personalize"})

\* a chat run executes personalize at most once and eight nodes at most, and
\* is not stopped for having used up its supersteps
C34_Bounded ==
    gWorkflow = "chat" =>
        /\ C34_PersonalizeRuns <= 1
        /\ gExecs <= 8
        /\ gStatus = "raised" => gRaised.kind \in RaiseKinds

C35_OrchestratorAlwaysRoutes ==
    /\ oCalls <= max_retries
    /\ opc # "raised"
    /\ opc = "returned" =>
          IF oResult.next_node = "personalize"
          THEN oResult.id \in AgentIds /\ agent_to_execute(oResult.id) # {}
          ELSE determine_next_node(oResult) = "__end__"

\* executions of node n in the run: the completed ones and the one in progress
\* (or ended by an exception)
C36_Executions(n) ==
    Cardinality({i \in 1..Len(gOrder) : gOrder[i] = n})
    + (IF n \in gStarted \ gFinished THEN 1 ELSE 0)

\* the nodes where several edges meet
C36_JoinNodes == {"slang_analysis", "generate_room_suggestion"}

\* C36: in one workflow run a join node executes exactly once: slang_analysis
\* (two predecessor edges) and generate_room_suggestion (six) are not executed
\* once per completing predecessor, and the nodes after them execute at most
\* once.
C36_JoinExecutesOnce ==
    /\ \A n \in NodesOf(gWorkflow) : C36_Executions(n) <= 1
    /\ \A j \in C36_JoinNodes \cap NodesOf(gWorkflow) :
          (Preds(gWorkflow, j) \subseteq completed /\ gStatus = "done")
              => C36_Executions(j) = 1

\* C36 witness: a room-suggestion run has ended; its six entry nodes and then
\* generate_room_suggestion have executed, each once.
C36_Witness ==
    /\ gWorkflow = "room_suggestions"
    /\ gStatus = "done"
    /\ Len(gOrder) = 7
    /\ gExecs = 7
    /\ gOrder[7] = "generate_room_suggestion"

\* an element for which no webhook is due: after cleaning it has at most one
\* character, or it begins with "(" and ends with ")"
C37_NotDue(c) ==
    \/ Len(c) <= 1
    \/ (SubSeq(c, 1, 1) = "(" /\ SubSeq(c, Len(c), Len(c)) = ")")

\* the cleaned texts due for the first k elements of list_message, in order
C37_Due(k) ==
    LET due[i \in 0..k] ==
            IF i = 0 THEN << >>
            ELSE LET c == CleanMessage(wResponse.items[i]) IN
                 IF C37_NotDue(c) THEN due[i - 1] ELSE Append(due[i - 1], c)
    IN  due[k]

\* the texts POSTed so far, in order
C37_Sent == [i \in 1..Len(wPosted) |-> wPosted[i].message]

\* C37: process_chat_message sends at most one webhook per element of
\* list_message, in list order; none for an element that after cleaning has
\* length <= 1 or is wrapped in parentheses, and none at all when list_message
\* is empty or missing; a non-200 answer for one element does not stop the
\* delivery of the following elements.
C37_OneWebhookPerMessage ==
    /\ wIndex <= Len(wResponse.items)
    /\ C37_Sent = C37_Due(wIndex)
    /\ (wResponse.list # "list" \/ wResponse.items = << >>) => wPosted = << >>
    /\ wpc = "done" => C37_Sent = C37_Due(Len(wResponse.items))

\* C37 witness: the handler is done with a list of two messages; the POST of
\* the first was answered with a non-200 status and the second was POSTed
\* after it.
C37_Witness ==
    /\ wpc = "done"
    /\ Len(wResponse.items) = 2
    /\ Len(wPosted) = 2
    /\ wPosted[1].log = "failed"
    /\ wPosted[2].message = CleanMessage(wResponse.items[2])

\* C38 (as claimed): in the /chat and /generate-room-suggestion endpoints a
\* Kafka producer that has been started is stopped before the request
\* finishes, on the success path and on every failure path, a failed
\* send_and_wait included.
C38_StartedProducerStopped ==
    \A r \in Requests :
        qpc[r] \in {"returned", "http_500"} => qProducer[r] # "started"

====
